---- MODULE Spec2Model ----
(***************************************************************************)
(* Model of the data-validation engine of ai-resource-configurator.        *)
(*                                                                         *)
(* A cell of a parsed row is a JavaScript value.  It is modelled as a       *)
(* tagged record so that values of different JavaScript types can be        *)
(* compared: t = "u" (undefined, the key is missing), "s" (string, a        *)
(* sequence of one-character strings), "n" (number, an integer) and         *)
(* "a" (a native array of numbers).                                         *)
(***************************************************************************)
EXTENDS Integers, Sequences, FiniteSets, TLC

VARIABLES clients, workers, tasks, validationErrors, error, activeTab,
          clientsData, workersData, tasksData, pageValidationErrors,
          utilErrors, firstErrors, pc,
          prioritizationWeight, saved,
          uploads,
          isProcessing, searchResults, searches,
          gridData, pageSize, searchTerm, sortField, sortDirection, currentPage,
          uploadProgress, uploadError, timers, dropped, onUploadCalls

vars == <<clients, workers, tasks, validationErrors, error, activeTab,
          clientsData, workersData, tasksData, pageValidationErrors,
          utilErrors, firstErrors, pc,
          prioritizationWeight, saved,
          uploads,
          isProcessing, searchResults, searches,
          gridData, pageSize, searchTerm, sortField, sortDirection, currentPage,
          uploadProgress, uploadError, timers, dropped, onUploadCalls>>

homeVars == <<clients, workers, tasks, validationErrors, error, activeTab>>

pageVars == <<clientsData, workersData, tasksData, pageValidationErrors>>

validateVars == <<utilErrors, firstErrors, pc>>

\* Home: the slider and the file of the last export.
exportVars == <<prioritizationWeight, saved>>

\* Home: the calls of handleUpload, finished or awaiting parseFile.
overlapVars == <<uploads>>

\* AIResourceConfigurator: the natural-language searches.
searchVars == <<isProcessing, searchResults, searches>>

\* DataGrid (utils/ai-service.ts).
gridVars == <<gridData, pageSize, searchTerm, sortField, sortDirection, currentPage>>

\* FileUpload.
fileVars == <<uploadProgress, uploadError, timers, dropped, onUploadCalls>>

sideVars == <<exportVars, overlapVars, searchVars, gridVars, fileVars>>

(***************************************************************************)
(* JavaScript values                                                       *)
(***************************************************************************)
Undef == [t |-> "u", s |-> <<>>, n |-> 0, l |-> <<>>]
Str(chars) == [t |-> "s", s |-> chars, n |-> 0, l |-> <<>>]
Num(v) == [t |-> "n", s |-> <<>>, n |-> v, l |-> <<>>]
Arr(list) == [t |-> "a", s |-> <<>>, n |-> 0, l |-> list]

Digits == <<"0", "1", "2", "3", "4", "5", "6", "7", "8", "9">>

IsDigit(c) == \E d \in 1..10 : Digits[d] = c

DigitValue(c) == (CHOOSE d \in 1..10 : Digits[d] = c) - 1

\* White space removed by String.prototype.trim and skipped by Number().
IsSpace(c) == c \in {" ", "\t", "\n", "\r"}

RECURSIVE NatToStr(_)
NatToStr(v) ==
    IF v < 10 THEN <<Digits[v + 1]>>
    ELSE NatToStr(v \div 10) \o <<Digits[(v % 10) + 1]>>

IntToStr(v) == IF v < 0 THEN <<"-">> \o NatToStr(-v) ELSE NatToStr(v)

RECURSIVE JoinNums(_)
JoinNums(list) ==
    IF list = <<>> THEN <<>>
    ELSE IF Len(list) = 1 THEN IntToStr(list[1])
    ELSE IntToStr(list[1]) \o <<",">> \o JoinNums(Tail(list))

\* String(v) and template-literal interpolation `${v}`.
ToStr(cell) ==
    CASE cell.t = "s" -> cell.s
      [] cell.t = "n" -> IntToStr(cell.n)
      [] cell.t = "a" -> JoinNums(cell.l)
      [] OTHER -> <<"u", "n", "d", "e", "f", "i", "n", "e", "d">>

\* JavaScript truthiness: `if (v)` and `v && ...`.
Truthy(cell) ==
    CASE cell.t = "s" -> cell.s # <<>>
      [] cell.t = "n" -> cell.n # 0
      [] cell.t = "a" -> TRUE
      [] OTHER -> FALSE

RECURSIVE TrimLeft(_)
TrimLeft(chars) ==
    IF chars # <<>> /\ IsSpace(Head(chars)) THEN TrimLeft(Tail(chars)) ELSE chars

RECURSIVE TrimRight(_)
TrimRight(chars) ==
    IF chars # <<>> /\ IsSpace(chars[Len(chars)])
    THEN TrimRight(SubSeq(chars, 1, Len(chars) - 1))
    ELSE chars

\* String.prototype.trim
Trim(chars) == TrimRight(TrimLeft(chars))

\* String.prototype.split(","): "" gives [""], "a," gives ["a", ""].
RECURSIVE Split(_)
Split(chars) ==
    IF \E i \in 1..Len(chars) : chars[i] = ","
    THEN LET i == CHOOSE k \in 1..Len(chars) :
                      chars[k] = "," /\ \A j \in 1..(k - 1) : chars[j] # ","
         IN <<SubSeq(chars, 1, i - 1)>> \o Split(SubSeq(chars, i + 1, Len(chars)))
    ELSE <<chars>>

\* String(v).split(",").map((x) => x.trim())
RECURSIVE MapTrim(_)
MapTrim(parts) ==
    IF parts = <<>> THEN <<>> ELSE <<Trim(Head(parts))>> \o MapTrim(Tail(parts))

SplitTrim(cell) == MapTrim(Split(ToStr(cell)))

AllDigits(chars) == chars # <<>> /\ \A i \in 1..Len(chars) : IsDigit(chars[i])

RECURSIVE DigitsToNat(_)
DigitsToNat(chars) ==
    IF chars = <<>> THEN 0
    ELSE 10 * DigitsToNat(SubSeq(chars, 1, Len(chars) - 1)) + DigitValue(chars[Len(chars)])

NaN == [nan |-> TRUE, v |-> 0]
Finite(v) == [nan |-> FALSE, v |-> v]

\* Number(string): white space is trimmed, "" is 0, an optionally signed run of
\* decimal digits is its value, any other text of the model's alphabet is NaN.
StringToNumber(chars) ==
    LET body == Trim(chars)
    IN IF body = <<>> THEN Finite(0)
       ELSE IF AllDigits(body) THEN Finite(DigitsToNat(body))
       ELSE IF Head(body) = "-" /\ AllDigits(Tail(body)) THEN Finite(-DigitsToNat(Tail(body)))
       ELSE IF Head(body) = "+" /\ AllDigits(Tail(body)) THEN Finite(DigitsToNat(Tail(body)))
       ELSE NaN

\* Number(v), and the implicit conversion of `v < 1`, `v > 5`.
ToNumber(cell) ==
    CASE cell.t = "n" -> Finite(cell.n)
      [] cell.t = "u" -> NaN
      [] OTHER -> StringToNumber(ToStr(cell))

\* v < k and v > k: false when v converts to NaN.
LessThan(cell, k) == ~ToNumber(cell).nan /\ ToNumber(cell).v < k
GreaterThan(cell, k) == ~ToNumber(cell).nan /\ ToNumber(cell).v > k


(***************************************************************************)
(* JSON.parse: a recursive-descent recogniser of RFC 8259 JSON text.  A     *)
(* parse result is [pos, kind, allNum]: pos is the index after the value    *)
(* (0 when the text is not JSON), kind the type of the value and allNum     *)
(* whether an array holds numbers only.                                    *)
(***************************************************************************)
CharAt(chars, i) == IF i >= 1 /\ i <= Len(chars) THEN chars[i] ELSE ""

IsJsonSpace(c) == c \in {" ", "\t", "\n", "\r"}

RECURSIVE SkipWs(_, _)
SkipWs(chars, i) == IF IsJsonSpace(CharAt(chars, i)) THEN SkipWs(chars, i + 1) ELSE i

RECURSIVE ScanDigits(_, _)
ScanDigits(chars, i) == IF IsDigit(CharAt(chars, i)) THEN ScanDigits(chars, i + 1) ELSE i

JsonFail == [pos |-> 0, kind |-> "none", allNum |-> FALSE]
JsonOk(p, k, a) == [pos |-> p, kind |-> k, allNum |-> a]

\* Index after the closing quote of the string whose body starts at i, or 0.
RECURSIVE ScanString(_, _)
ScanString(chars, i) ==
    LET c == CharAt(chars, i)
    IN IF c = "" THEN 0
       ELSE IF c = "\"" THEN i + 1
       ELSE IF c = "\\"
            THEN IF CharAt(chars, i + 1) \in {"\"", "\\", "/", "b", "f", "n", "r", "t"}
                 THEN ScanString(chars, i + 2)
                 ELSE 0
       ELSE IF c \in {"\t", "\n", "\r"} THEN 0
       ELSE ScanString(chars, i + 1)

\* Index after the number that starts at i, or 0.
ScanNumber(chars, i) ==
    LET j == IF CharAt(chars, i) = "-" THEN i + 1 ELSE i
        k == IF CharAt(chars, j) = "0" THEN j + 1 ELSE ScanDigits(chars, j)
        f == IF CharAt(chars, k) = "." THEN ScanDigits(chars, k + 1) ELSE k
        fracOk == CharAt(chars, k) = "." => f > k + 1
        hasExp == CharAt(chars, f) \in {"e", "E"}
        g == IF CharAt(chars, f + 1) \in {"+", "-"} THEN f + 2 ELSE f + 1
        h == IF hasExp THEN ScanDigits(chars, g) ELSE f
        expOk == hasExp => h > g
    IN IF k > j /\ fracOk /\ expOk THEN h ELSE 0

ScanLiteral(chars, i, word) ==
    IF i + Len(word) - 1 <= Len(chars) /\ SubSeq(chars, i, i + Len(word) - 1) = word
    THEN i + Len(word)
    ELSE 0

RECURSIVE ParseValue(_, _)
RECURSIVE ParseElements(_, _, _)
RECURSIVE ParseMembers(_, _)

ParseElements(chars, i, allNum) ==
    LET v == ParseValue(chars, i)
        k == SkipWs(chars, v.pos)
        nums == allNum /\ v.kind = "number"
    IN IF v.pos = 0 THEN JsonFail
       ELSE IF CharAt(chars, k) = "," THEN ParseElements(chars, SkipWs(chars, k + 1), nums)
       ELSE IF CharAt(chars, k) = "]" THEN JsonOk(k + 1, "array", nums)
       ELSE JsonFail

ParseMembers(chars, i) ==
    LET e == IF CharAt(chars, i) = "\"" THEN ScanString(chars, i + 1) ELSE 0
        k == SkipWs(chars, e)
        v == ParseValue(chars, SkipWs(chars, k + 1))
        m == SkipWs(chars, v.pos)
    IN IF e = 0 \/ CharAt(chars, k) # ":" THEN JsonFail
       ELSE IF v.pos = 0 THEN JsonFail
       ELSE IF CharAt(chars, m) = "," THEN ParseMembers(chars, SkipWs(chars, m + 1))
       ELSE IF CharAt(chars, m) = "}" THEN JsonOk(m + 1, "object", FALSE)
       ELSE JsonFail

ParseValue(chars, i) ==
    LET c == CharAt(chars, i)
        lit(word, kind) == IF ScanLiteral(chars, i, word) = 0 THEN JsonFail
                           ELSE JsonOk(ScanLiteral(chars, i, word), kind, FALSE)
    IN CASE c = "[" ->
              IF CharAt(chars, SkipWs(chars, i + 1)) = "]"
              THEN JsonOk(SkipWs(chars, i + 1) + 1, "array", TRUE)
              ELSE ParseElements(chars, SkipWs(chars, i + 1), TRUE)
         [] c = "{" ->
              IF CharAt(chars, SkipWs(chars, i + 1)) = "}"
              THEN JsonOk(SkipWs(chars, i + 1) + 1, "object", FALSE)
              ELSE ParseMembers(chars, SkipWs(chars, i + 1))
         [] c = "\"" ->
              IF ScanString(chars, i + 1) = 0 THEN JsonFail
              ELSE JsonOk(ScanString(chars, i + 1), "string", FALSE)
         [] c = "t" -> lit(<<"t", "r", "u", "e">>, "boolean")
         [] c = "f" -> lit(<<"f", "a", "l", "s", "e">>, "boolean")
         [] c = "n" -> lit(<<"n", "u", "l", "l">>, "null")
         [] c = "-" \/ IsDigit(c) ->
              IF ScanNumber(chars, i) = 0 THEN JsonFail
              ELSE JsonOk(ScanNumber(chars, i), "number", FALSE)
         [] OTHER -> JsonFail

\* JSON.parse(text): the parsed value's shape, JsonFail when it throws.
JsonParse(chars) ==
    LET v == ParseValue(chars, SkipWs(chars, 1))
    IN IF v.pos # 0 /\ SkipWs(chars, v.pos) = Len(chars) + 1 THEN v ELSE JsonFail

JsonThrows(chars) == JsonParse(chars).pos = 0

(***************************************************************************)
(* The two regular expressions of PreferredPhases                          *)
(***************************************************************************)
RECURSIVE AllParts(_)
AllParts(parts) == parts = <<>> \/ (AllDigits(Head(parts)) /\ AllParts(Tail(parts)))

\* /^\[\d+(,\d+)*\]$/.test(val)
MatchesBracketList(chars) ==
    /\ Len(chars) >= 2
    /\ chars[1] = "["
    /\ chars[Len(chars)] = "]"
    /\ AllParts(Split(SubSeq(chars, 2, Len(chars) - 1)))

\* /^\d+-\d+$/.test(val)
MatchesDashRange(chars) ==
    \E i \in 1..Len(chars) :
        /\ chars[i] = "-"
        /\ AllDigits(SubSeq(chars, 1, i - 1))
        /\ AllDigits(SubSeq(chars, i + 1, Len(chars)))

(***************************************************************************)
(* Datasets and error records                                              *)
(*                                                                         *)
(* A dataset state of Home is null or an array of rows: [present, rows].   *)
(* A row is a record of cells; a missing key is the cell Undef.            *)
(***************************************************************************)
NullData == [present |-> FALSE, rows |-> <<>>]
Data(rows) == [present |-> TRUE, rows |-> rows]

\* `tasks ?? []`, `workers ?? []`
OrEmpty(data) == IF data.present THEN data.rows ELSE <<>>

\* A message is a template text and the value interpolated into it.
Msg(text, arg) == [text |-> text, arg |-> arg]

ValidationError(type, message, entity, rowIndex, field) ==
    [type |-> type, message |-> message, entity |-> entity,
     rowIndex |-> rowIndex, field |-> field]

\* errors.push(e) when the condition holds
PushIf(cond, e) == IF cond THEN <<e>> ELSE <<>>

(***************************************************************************)
(* validateClients of Home.  i is the 0-based forEach index, ids the Set    *)
(* of the ClientIDs of the rows before row i.                              *)
(***************************************************************************)
\* Mutant: the id is added to the Set before the membership test.
ClientsDuplicateID_AddFirst(row, i, ids) ==
    PushIf(row.ClientID \in (ids \cup {row.ClientID}),
           ValidationError("DuplicateID", Msg("Duplicate ClientID: ${row.ClientID}", ToStr(row.ClientID)),
                           "clients", i, "ClientID"))

ClientsDuplicateID(row, i, ids) ==
    PushIf(row.ClientID \in ids,
           ValidationError("DuplicateID", Msg("Duplicate ClientID: ${row.ClientID}", ToStr(row.ClientID)),
                           "clients", i, "ClientID"))

ClientsPriorityLevel(row, i) ==
    PushIf(Truthy(row.PriorityLevel)
             /\ (LessThan(row.PriorityLevel, 1) \/ GreaterThan(row.PriorityLevel, 5)),
           ValidationError("OutOfRange", Msg("PriorityLevel must be 1-5", <<>>),
                           "clients", i, "PriorityLevel"))

RECURSIVE RequestedErrors(_, _, _)
RequestedErrors(requested, i, taskIDs) ==
    IF requested = <<>> THEN <<>>
    ELSE LET tid == Head(requested)
         IN PushIf(tid # <<>> /\ Str(tid) \notin taskIDs,
                   ValidationError("UnknownReference",
                                   Msg("RequestedTaskID ${tid} not found in tasks", tid),
                                   "clients", i, "RequestedTaskIDs"))
            \o RequestedErrors(Tail(requested), i, taskIDs)

\* Mutant: the entries are not trimmed.
ClientsRequestedTaskIDs_NoTrim(row, i, taskIDs) ==
    IF Truthy(row.RequestedTaskIDs)
    THEN RequestedErrors(Split(ToStr(row.RequestedTaskIDs)), i, taskIDs)
    ELSE <<>>

ClientsRequestedTaskIDs(row, i, taskIDs) ==
    IF Truthy(row.RequestedTaskIDs)
    THEN RequestedErrors(SplitTrim(row.RequestedTaskIDs), i, taskIDs)
    ELSE <<>>

\* Mutant: only a JSON object is accepted.
ClientsAttributesJSON_ObjectsOnly(row, i) ==
    PushIf(Truthy(row.AttributesJSON) /\ JsonParse(ToStr(row.AttributesJSON)).kind # "object",
           ValidationError("BrokenJSON", Msg("AttributesJSON is not valid JSON", <<>>),
                           "clients", i, "AttributesJSON"))

ClientsAttributesJSON(row, i) ==
    PushIf(Truthy(row.AttributesJSON) /\ JsonThrows(ToStr(row.AttributesJSON)),
           ValidationError("BrokenJSON", Msg("AttributesJSON is not valid JSON", <<>>),
                           "clients", i, "AttributesJSON"))

\* Mutant: the checks of a row stop at its first error.
ClientRowErrors_FirstOnly(row, i, ids, taskIDs) ==
    LET all == ClientsDuplicateID(row, i, ids)
               \o ClientsPriorityLevel(row, i)
               \o ClientsRequestedTaskIDs(row, i, taskIDs)
               \o ClientsAttributesJSON(row, i)
    IN IF all = <<>> THEN <<>> ELSE <<Head(all)>>

ClientRowErrors(row, i, ids, taskIDs) ==
    ClientsDuplicateID(row, i, ids)
    \o ClientsPriorityLevel(row, i)
    \o ClientsRequestedTaskIDs(row, i, taskIDs)
    \o ClientsAttributesJSON(row, i)

\* new Set(tasks.map((t) => t.TaskID))
TaskIDSet(taskRows) == {taskRows[k].TaskID : k \in 1..Len(taskRows)}

RECURSIVE ClientsFrom(_, _, _)
ClientsFrom(rows, k, taskIDs) ==
    IF k > Len(rows) THEN <<>>
    ELSE ClientRowErrors(rows[k], k - 1, {rows[j].ClientID : j \in 1..(k - 1)}, taskIDs)
         \o ClientsFrom(rows, k + 1, taskIDs)

validateClients(clientRows, taskRows) == ClientsFrom(clientRows, 1, TaskIDSet(taskRows))

(***************************************************************************)
(* validateWorkers of Home                                                 *)
(***************************************************************************)
WorkersDuplicateID(row, i, ids) ==
    PushIf(row.WorkerID \in ids,
           ValidationError("DuplicateID", Msg("Duplicate WorkerID: ${row.WorkerID}", ToStr(row.WorkerID)),
                           "workers", i, "WorkerID"))

\* The try block throws: JSON.parse fails, or the value is no array, or an
\* element is no number.
SlotsThrow(cell) ==
    IF cell.t = "s"
    THEN LET text == [k \in 1..Len(cell.s) |-> IF cell.s[k] = "'" THEN "\"" ELSE cell.s[k]]
             v == JsonParse(text)
         IN v.pos = 0 \/ v.kind # "array" \/ ~v.allNum
    ELSE cell.t # "a"

WorkersAvailableSlots(row, i) ==
    PushIf(Truthy(row.AvailableSlots) /\ SlotsThrow(row.AvailableSlots),
           ValidationError("MalformedList", Msg("AvailableSlots must be a numeric array", <<>>),
                           "workers", i, "AvailableSlots"))

WorkersMaxLoadPerPhase(row, i) ==
    PushIf(Truthy(row.MaxLoadPerPhase) /\ ToNumber(row.MaxLoadPerPhase).nan,
           ValidationError("MalformedValue", Msg("MaxLoadPerPhase must be a number", <<>>),
                           "workers", i, "MaxLoadPerPhase"))

WorkerRowErrors(row, i, ids) ==
    WorkersDuplicateID(row, i, ids)
    \o WorkersAvailableSlots(row, i)
    \o WorkersMaxLoadPerPhase(row, i)

RECURSIVE WorkersFrom(_, _)
WorkersFrom(rows, k) ==
    IF k > Len(rows) THEN <<>>
    ELSE WorkerRowErrors(rows[k], k - 1, {rows[j].WorkerID : j \in 1..(k - 1)})
         \o WorkersFrom(rows, k + 1)

validateWorkers(workerRows) == WorkersFrom(workerRows, 1)

(***************************************************************************)
(* validateTasks of Home                                                   *)
(***************************************************************************)
\* new Set(workers.flatMap((w) => String(w.Skills || "").split(",").map(trim)))
SkillsOf(row) == IF Truthy(row.Skills) THEN SplitTrim(row.Skills) ELSE <<<<>>>>

\* Mutant: the skills of the workers are not trimmed.
WorkerSkillSet_NoTrim(workerRows) ==
    UNION {{Split(ToStr(workerRows[k].Skills))[j] :
                j \in 1..Len(Split(ToStr(workerRows[k].Skills)))} :
           k \in 1..Len(workerRows)}

WorkerSkillSet(workerRows) ==
    UNION {{SkillsOf(workerRows[k])[j] : j \in 1..Len(SkillsOf(workerRows[k]))} :
           k \in 1..Len(workerRows)}

TasksDuplicateID(row, i, ids) ==
    PushIf(row.TaskID \in ids,
           ValidationError("DuplicateID", Msg("Duplicate TaskID: ${row.TaskID}", ToStr(row.TaskID)),
                           "tasks", i, "TaskID"))

TasksDurationPhases(row, i) ==
    PushIf(Truthy(row.DurationPhases) /\ LessThan(row.DurationPhases, 1),
           ValidationError("OutOfRange", Msg("DurationPhases must be >= 1", <<>>),
                           "tasks", i, "DurationPhases"))

RECURSIVE RequiredErrors(_, _, _)
RequiredErrors(required, i, workerSkills) ==
    IF required = <<>> THEN <<>>
    ELSE LET skill == Head(required)
         IN PushIf(skill # <<>> /\ skill \notin workerSkills,
                   ValidationError("SkillCoverage",
                                   Msg("RequiredSkill ${skill} not found in any worker", skill),
                                   "tasks", i, "RequiredSkills"))
            \o RequiredErrors(Tail(required), i, workerSkills)

TasksRequiredSkills(row, i, workerSkills) ==
    IF Truthy(row.RequiredSkills)
    THEN RequiredErrors(SplitTrim(row.RequiredSkills), i, workerSkills)
    ELSE <<>>

\* Mutant: only the bracketed list is accepted.
TasksPreferredPhases_BracketOnly(row, i) ==
    PushIf(Truthy(row.PreferredPhases) /\ ~MatchesBracketList(ToStr(row.PreferredPhases)),
           ValidationError("MalformedList",
                           Msg("PreferredPhases must be a list [1,2] or range 1-3", <<>>),
                           "tasks", i, "PreferredPhases"))

TasksPreferredPhases(row, i) ==
    PushIf(Truthy(row.PreferredPhases)
             /\ ~(MatchesBracketList(ToStr(row.PreferredPhases))
                    \/ MatchesDashRange(ToStr(row.PreferredPhases))),
           ValidationError("MalformedList",
                           Msg("PreferredPhases must be a list [1,2] or range 1-3", <<>>),
                           "tasks", i, "PreferredPhases"))

TasksMaxConcurrent(row, i) ==
    PushIf(Truthy(row.MaxConcurrent) /\ ToNumber(row.MaxConcurrent).nan,
           ValidationError("MalformedValue", Msg("MaxConcurrent must be a number", <<>>),
                           "tasks", i, "MaxConcurrent"))

\* Mutant: RequiredSkills is checked before DurationPhases.
TaskRowErrors_SkillsFirst(row, i, ids, workerSkills) ==
    TasksDuplicateID(row, i, ids)
    \o TasksRequiredSkills(row, i, workerSkills)
    \o TasksDurationPhases(row, i)
    \o TasksPreferredPhases(row, i)
    \o TasksMaxConcurrent(row, i)

TaskRowErrors(row, i, ids, workerSkills) ==
    TasksDuplicateID(row, i, ids)
    \o TasksDurationPhases(row, i)
    \o TasksRequiredSkills(row, i, workerSkills)
    \o TasksPreferredPhases(row, i)
    \o TasksMaxConcurrent(row, i)

RECURSIVE TasksFrom(_, _, _)
TasksFrom(rows, k, workerSkills) ==
    IF k > Len(rows) THEN <<>>
    ELSE TaskRowErrors(rows[k], k - 1, {rows[j].TaskID : j \in 1..(k - 1)}, workerSkills)
         \o TasksFrom(rows, k + 1, workerSkills)

validateTasks(taskRows, workerRows) == TasksFrom(taskRows, 1, WorkerSkillSet(workerRows))

(***************************************************************************)
(* The validation useMemo of Home: the report of the three datasets.       *)
(***************************************************************************)
ClientsPart(c, t) == IF c.present THEN validateClients(c.rows, OrEmpty(t)) ELSE <<>>
WorkersPart(w) == IF w.present THEN validateWorkers(w.rows) ELSE <<>>
TasksPart(t, w) == IF t.present THEN validateTasks(t.rows, OrEmpty(w)) ELSE <<>>

\* Mutant: the errors of tasks are put first.
Validation_TasksFirst(c, w, t) == TasksPart(t, w) \o ClientsPart(c, t) \o WorkersPart(w)

Validation(c, w, t) == ClientsPart(c, t) \o WorkersPart(w) \o TasksPart(t, w)

(***************************************************************************)
(* validateClients of utils/validation.ts: errors are {type, message, row,  *)
(* column} with a 1-based row.                                             *)
(***************************************************************************)
UtilError(type, message, row, column) ==
    [type |-> type, message |-> message, row |-> row, column |-> column]

UtilDuplicateID(client, index, ids) ==
    PushIf(client.ClientID \in ids,
           UtilError("duplicate_id",
                     Msg("Duplicate ClientID: ${client.ClientID}", ToStr(client.ClientID)),
                     index + 1, "ClientID"))

UtilPriorityLevel(client, index) ==
    PushIf(LessThan(client.PriorityLevel, 1) \/ GreaterThan(client.PriorityLevel, 5),
           UtilError("out_of_range",
                     Msg("PriorityLevel must be 1-5, got: ${client.PriorityLevel}",
                         ToStr(client.PriorityLevel)),
                     index + 1, "PriorityLevel"))

UtilRequired(client, index) ==
    PushIf(~Truthy(client.ClientID) \/ ~Truthy(client.ClientName),
           UtilError("missing_required", Msg("Missing required ClientID or ClientName", <<>>),
                     index + 1, "ClientID/ClientName"))

UtilAttributesJSON(client, index) ==
    PushIf(Truthy(client.AttributesJSON) /\ JsonThrows(ToStr(client.AttributesJSON)),
           UtilError("invalid_json", Msg("Invalid JSON in AttributesJSON", <<>>),
                     index + 1, "AttributesJSON"))

UtilRowErrors(client, index, ids) ==
    UtilDuplicateID(client, index, ids)
    \o UtilPriorityLevel(client, index)
    \o UtilRequired(client, index)
    \o UtilAttributesJSON(client, index)

RECURSIVE UtilFrom(_, _)
UtilFrom(data, k) ==
    IF k > Len(data) THEN <<>>
    ELSE UtilRowErrors(data[k], k - 1, {data[j].ClientID : j \in 1..(k - 1)})
         \o UtilFrom(data, k + 1)

utilValidateClients(data) == UtilFrom(data, 1)

(***************************************************************************)
(* Exceptions.  The statements of the validators that can throw are the    *)
(* two JSON.parse calls and the throw statement of validateWorkers; each    *)
(* stands in a try block with a catch clause.  A validator fails when an    *)
(* exception leaves it.                                                    *)
(***************************************************************************)
Escapes(thrown, caught) == thrown /\ ~caught

\* JSON.parse(row.AttributesJSON) inside try { } catch { }
ClientRowFails(row) ==
    Escapes(Truthy(row.AttributesJSON) /\ JsonThrows(ToStr(row.AttributesJSON)), TRUE)

\* Mutant: the checks of AvailableSlots stand outside a try block.
WorkerRowFails_NoTry(row) ==
    Escapes(Truthy(row.AvailableSlots) /\ SlotsThrow(row.AvailableSlots), FALSE)

\* JSON.parse and throw new Error() inside try { } catch { }
WorkerRowFails(row) ==
    Escapes(Truthy(row.AvailableSlots) /\ SlotsThrow(row.AvailableSlots), TRUE)

\* validateClients of utils/validation.ts: JSON.parse inside try { } catch (e) { }
UtilRowFails(client) ==
    Escapes(Truthy(client.AttributesJSON) /\ JsonThrows(ToStr(client.AttributesJSON)), TRUE)

\* validateTasks has no statement that throws on a cell.
ValidationFails(c, w, t) ==
    \/ c.present /\ \E k \in 1..Len(c.rows) : ClientRowFails(c.rows[k]) \/ UtilRowFails(c.rows[k])
    \/ w.present /\ \E k \in 1..Len(w.rows) : WorkerRowFails(w.rows[k])

(***************************************************************************)
(* The validators of AIResourceConfigurator (app/page.tsx).  Errors are     *)
(* {type, message, row, column}; the type is kept as text because the       *)
(* report is filtered by a substring test on it.                           *)
(***************************************************************************)
\* row[name], undefined when the row has no such key.
Field(row, name) == IF name \in DOMAIN row THEN row[name] ELSE Undef

\* String.prototype.indexOf: the 0-based index of the first occurrence, or -1.
IndexOf(text, word) ==
    LET at(i) == i + Len(word) - 1 <= Len(text) /\ SubSeq(text, i, i + Len(word) - 1) = word
    IN IF \E i \in 1..(Len(text) + 1) : at(i)
       THEN (CHOOSE i \in 1..(Len(text) + 1) : at(i) /\ \A j \in 1..(i - 1) : ~at(j)) - 1
       ELSE -1

DuplicateIdType == <<"d", "u", "p", "l", "i", "c", "a", "t", "e", "_", "i", "d">>
OutOfRangeType == <<"o", "u", "t", "_", "o", "f", "_", "r", "a", "n", "g", "e">>
MissingRequiredType == <<"m", "i", "s", "s", "i", "n", "g", "_", "r", "e", "q", "u", "i", "r", "e", "d">>

PageError(type, message, row, column) ==
    [type |-> type, message |-> message, row |-> row, column |-> column]

PageClientRowErrors(client, index, ids) ==
    PushIf(client.ClientID \in ids,
           PageError(DuplicateIdType,
                     Msg("Duplicate ClientID: ${client.ClientID}", ToStr(client.ClientID)),
                     index + 1, "ClientID"))
    \o PushIf(LessThan(client.PriorityLevel, 1) \/ GreaterThan(client.PriorityLevel, 5),
              PageError(OutOfRangeType,
                        Msg("PriorityLevel must be 1-5, got: ${client.PriorityLevel}",
                            ToStr(client.PriorityLevel)),
                        index + 1, "PriorityLevel"))
    \o PushIf(~Truthy(client.ClientID) \/ ~Truthy(client.ClientName),
              PageError(MissingRequiredType, Msg("Missing required ClientID or ClientName", <<>>),
                        index + 1, "ClientID/ClientName"))

PageWorkerRowErrors(worker, index, ids) ==
    PushIf(worker.WorkerID \in ids,
           PageError(DuplicateIdType,
                     Msg("Duplicate WorkerID: ${worker.WorkerID}", ToStr(worker.WorkerID)),
                     index + 1, "WorkerID"))
    \o PushIf(~Truthy(worker.WorkerID) \/ ~Truthy(worker.WorkerName),
              PageError(MissingRequiredType, Msg("Missing required WorkerID or WorkerName", <<>>),
                        index + 1, "WorkerID/WorkerName"))
    \o PushIf(LessThan(worker.MaxLoadPerPhase, 1),
              PageError(OutOfRangeType, Msg("MaxLoadPerPhase must be >= 1", <<>>),
                        index + 1, "MaxLoadPerPhase"))

PageTaskRowErrors(task, index, ids) ==
    PushIf(task.TaskID \in ids,
           PageError(DuplicateIdType,
                     Msg("Duplicate TaskID: ${task.TaskID}", ToStr(task.TaskID)),
                     index + 1, "TaskID"))
    \o PushIf(LessThan(Field(task, "Duration"), 1),
              PageError(OutOfRangeType, Msg("Duration must be >= 1", <<>>),
                        index + 1, "Duration"))
    \o PushIf(~Truthy(task.TaskID) \/ ~Truthy(task.TaskName),
              PageError(MissingRequiredType, Msg("Missing required TaskID or TaskName", <<>>),
                        index + 1, "TaskID/TaskName"))

\* The errors array a validator has built when its forEach ends.
RECURSIVE PageErrorsFrom(_, _, _)
PageErrorsFrom(type, data, k) ==
    IF k > Len(data) THEN <<>>
    ELSE (CASE type = "clients" ->
                 PageClientRowErrors(data[k], k - 1, {data[j].ClientID : j \in 1..(k - 1)})
            [] type = "workers" ->
                 PageWorkerRowErrors(data[k], k - 1, {data[j].WorkerID : j \in 1..(k - 1)})
            [] OTHER ->
                 PageTaskRowErrors(data[k], k - 1, {data[j].TaskID : j \in 1..(k - 1)}))
         \o PageErrorsFrom(type, data, k + 1)

PageErrors(type, data) == PageErrorsFrom(type, data, 1)

\* The word a validator looks for in the types of the errors it drops.
FilterWord(type) ==
    CASE type = "clients" -> <<"c", "l", "i", "e", "n", "t">>
      [] type = "workers" -> <<"w", "o", "r", "k", "e", "r">>
      [] OTHER -> <<"t", "a", "s", "k">>

\* setValidationErrors(prev => [...prev.filter(e => e.type.indexOf(word) === -1), ...errors])
PageSetErrors(prev, type, errors) ==
    SelectSeq(prev, LAMBDA e : IndexOf(e.type, FilterWord(type)) = -1) \o errors

(***************************************************************************)
(* Bounded inputs.  Texts are written as sequences of characters.          *)
(***************************************************************************)
\* Rows per dataset drawn for the validators.
MaxRows == 2

\* Rows per file uploaded to Home.
MaxUploadRows == 1

\* PriorityLevel, DurationPhases, ... range over -MaxInt..MaxInt.
MaxInt == 7

ClientRow(id, name, p, r, j) ==
    [ClientID |-> id, ClientName |-> name, PriorityLevel |-> p,
     RequestedTaskIDs |-> r, AttributesJSON |-> j]

WorkerRow(id, name, sk, sl, ml) ==
    [WorkerID |-> id, WorkerName |-> name, Skills |-> sk,
     AvailableSlots |-> sl, MaxLoadPerPhase |-> ml]

TaskRow(id, name, rs, pp, d, mc) ==
    [TaskID |-> id, TaskName |-> name, RequiredSkills |-> rs,
     PreferredPhases |-> pp, DurationPhases |-> d, MaxConcurrent |-> mc]

\* A task row of a file that also has the column Duration, which
\* validateTasks of app/page.tsx reads.
WithDuration(row, d) ==
    [f \in DOMAIN row \cup {"Duration"} |-> IF f = "Duration" THEN d ELSE row[f]]

\* All sequences of at most n elements of S.
SeqUpTo(S, n) == UNION {[1..k -> S] : k \in 0..n}

NumberCells == {Num(v) : v \in (-MaxInt)..MaxInt} \cup {Str(IntToStr(v)) : v \in (-MaxInt)..MaxInt}

ClientIDCells == {Str(<<"C", "1">>), Str(<<"C", "2">>), Str(<<>>), Undef}

WorkerIDCells == {Str(<<"W", "1">>), Str(<<"W", "2">>), Str(<<>>), Undef}

TaskIDCells == {Str(<<"T", "1">>), Str(<<"T", "2">>), Str(<<>>), Undef}

NameCells == {Str(<<"A">>), Str(<<>>)}

PriorityCells == NumberCells \cup {Undef, Str(<<>>), Str(<<"x">>), Str(<<" ", "6", " ">>)}

RequestedCells ==
    {Undef,
     Str(<<>>),
     Str(<<"T", "1">>),
     Str(<<"T", "9">>),
     Str(<<"T", "1", ",", "T", "9">>),
     Str(<<" ", "T", "9", " ", ",", ",", "T", "1">>),
     Str(<<"T", "9", ",", "T", "9">>)}

\* AttributesJSON values that are JSON text (RFC 8259).
ValidJsonCells ==
    {Str(<<"{", "\"", "a", "\"", ":", "1", "}">>),
     Str(<<" ", "{", "\"", "a", "\"", " ", ":", " ", "1", "}", "\n">>),
     Str(<<"{", "}">>),
     Str(<<"{", "\"", "a", "\"", ":", "{", "\"", "b", "\"", ":", "[", "t", "r", "u", "e", ",", "n", "u", "l", "l", "]", "}", "}">>),
     Str(<<"[", "1", ",", "2", "]">>),
     Str(<<"-", "1", ".", "5", "e", "2">>),
     Str(<<"\"", "x", "\"">>),
     Str(<<"n", "u", "l", "l">>),
     Num(5)}

\* AttributesJSON values that are not empty and no JSON text.
BrokenJsonCells ==
    {Str(<<"{", "a", ":", "1", "}">>),
     Str(<<"{", "'", "a", "'", ":", "1", "}">>),
     Str(<<"{", "\"", "a", "\"", ":", "1", ",", "}">>),
     Str(<<"{", "\"", "a", "\"", "}">>),
     Str(<<"{", "\"", "a", "\"", ":", "1", "}", "x">>),
     Str(<<"[", "1", ",", "2">>),
     Str(<<"0", "1">>),
     Str(<<"\"", "x">>),
     Str(<<"x">>),
     Str(<<" ">>)}

AttributesCells == {Undef, Str(<<>>)} \cup ValidJsonCells \cup BrokenJsonCells

SkillsCells == {Undef, Str(<<>>), Str(<<"p">>), Str(<<"e">>), Str(<<" ", "p", " ", ",", " ", "e", ",">>)}

\* AvailableSlots values that are a list of integers.
IntegerListCells ==
    {Str(<<"[", "1", ",", "2", "]">>),
     Str(<<" ", "[", "1", ",", " ", "2", "]", " ">>),
     Str(<<"[", "-", "1", "]">>),
     Str(<<"[", "]">>),
     Arr(<<1, 2>>),
     Arr(<<>>)}

\* AvailableSlots values that are no list, or a list with an element that is
\* no integer.
NotIntegerListCells ==
    {Str(<<"[", "1", ",", "2">>),
     Str(<<"5">>),
     Str(<<"x">>),
     Str(<<"{", "}">>),
     Str(<<"[", "1", ",", "x", ",", "y", "]">>),
     Str(<<"[", "1", ",", "n", "u", "l", "l", ",", "t", "r", "u", "e", "]">>),
     Str(<<"[", "[", "1", "]", "]">>),
     Str(<<"[", "1", ".", "5", "]">>),
     Num(5)}

\* Lists whose elements are written in quotes, and the number 0.
QuotedSlotsCells ==
    {Str(<<"[", "'", "1", "'", "]">>),
     Str(<<"[", "\"", "1", "\"", ",", "\"", "2", "\"", "]">>),
     Str(<<"'", "[", "1", "]", "'">>),
     Num(0)}

SlotsCells == {Undef, Str(<<>>)} \cup IntegerListCells \cup NotIntegerListCells \cup QuotedSlotsCells

LoadCells ==
    {Undef, Str(<<>>), Str(<<"x">>), Str(<<"2", "x">>), Str(<<"2">>), Str(<<" ", "2", " ">>), Str(<<"0">>),
     Str(<<"-", "1">>), Num(0), Num(3), Num(-1)}

RequiredCells ==
    {Undef,
     Str(<<>>),
     Str(<<"p">>),
     Str(<<"e">>),
     Str(<<"p", ",", "e">>),
     Str(<<" ", "e", " ", ",", ",", "p">>),
     Str(<<"e", ",", "e">>)}

PhasesCells ==
    {Undef,
     Str(<<>>),
     Str(<<"[", "1", ",", "2", ",", "3", "]">>),
     Str(<<"2", "-", "4">>),
     Str(<<"[", "1", ",", "2">>),
     Str(<<"2", "~", "4">>),
     Str(<<"[", "]">>),
     Str(<<"[", "7", "]">>),
     Str(<<"[", "1", ",", ",", "2", "]">>),
     Str(<<"[", "1", ",", " ", "2", "]">>),
     Str(<<"1", "0", "-", "1", "2">>),
     Str(<<"2", "-">>),
     Str(<<"-", "4">>),
     Str(<<"2", "-", "4", "-", "6">>),
     Str(<<" ", "2", "-", "4">>),
     Str(<<"3">>),
     Num(3),
     Num(0)}

DurationCells == NumberCells \cup {Undef, Str(<<>>), Str(<<"x">>)}

ConcurrentCells ==
    {Undef, Str(<<>>), Str(<<"x">>), Str(<<"2", "x">>), Str(<<"2">>), Str(<<"0">>), Str(<<"-", "1">>),
     Num(0), Num(1), Num(-1)}

\* Rows that combine several faults, for datasets of more than one row.
CoreClientRows ==
    {ClientRow(Str(<<"C", "1">>), Str(<<"A">>), Num(3), Str(<<"T", "1">>), Str(<<"{", "\"", "a", "\"", ":", "1", "}">>)),
     ClientRow(Str(<<"C", "1">>), Str(<<>>), Num(6), Str(<<"T", "9", ",", " ", "T", "1", ",", "T", "8">>), Str(<<"{", "a", ":", "1", "}">>)),
     ClientRow(Str(<<"C", "2">>), Str(<<"A">>), Str(<<"0">>), Str(<<>>), Undef),
     ClientRow(Undef, Str(<<"A">>), Undef, Str(<<"T", "1">>), Str(<<>>))}

CoreWorkerRows ==
    {WorkerRow(Str(<<"W", "1">>), Str(<<"A">>), Str(<<"p">>), Str(<<"[", "1", ",", "2", "]">>), Num(3)),
     WorkerRow(Str(<<"W", "1">>), Str(<<>>), Str(<<"e", ",", " ", "q">>), Str(<<"[", "1", ",", "2">>), Str(<<"x">>)),
     WorkerRow(Str(<<"W", "2">>), Str(<<"A">>), Str(<<>>), Undef, Undef)}

CoreTaskRows ==
    {TaskRow(Str(<<"T", "1">>), Str(<<"A">>), Str(<<"p">>), Str(<<"[", "1", ",", "2", "]">>), Num(2), Num(1)),
     TaskRow(Str(<<"T", "1">>), Str(<<>>), Str(<<"e", ",", " ", "q">>), Str(<<"[", "1", ",", "2">>), Str(<<"0">>), Str(<<"x">>)),
     TaskRow(Str(<<"T", "2">>), Str(<<"A">>), Str(<<>>), Undef, Undef, Undef)}

\* Single rows that vary one group of fields at a time.
RichClientRows ==
    {ClientRow(Str(<<"C", "1">>), Str(<<"A">>), p, r, j) :
        p \in PriorityCells, r \in {Str(<<>>), Str(<<"T", "9">>)}, j \in {Undef, Str(<<"{", "a", ":", "1", "}">>)}}
    \cup {ClientRow(id, name, p, r, j) :
            id \in ClientIDCells, name \in NameCells, p \in {Undef, Num(6)},
            r \in RequestedCells, j \in {Undef, Str(<<"{", "a", ":", "1", "}">>)}}
    \cup {ClientRow(Str(<<"C", "1">>), name, p, r, j) :
            name \in NameCells, p \in {Undef, Num(6)}, r \in {Str(<<>>), Str(<<"T", "9">>)},
            j \in AttributesCells}

RichWorkerRows ==
    {WorkerRow(id, name, sk, sl, ml) :
        id \in WorkerIDCells, name \in NameCells, sk \in {Undef, Str(<<"p">>)},
        sl \in SlotsCells, ml \in LoadCells}

RichTaskRows ==
    {TaskRow(Str(<<"T", "1">>), Str(<<"A">>), rs, pp, d, mc) :
        rs \in {Str(<<>>), Str(<<"e">>)}, pp \in {Undef, Str(<<"[", "1", ",", "2">>)}, d \in DurationCells, mc \in {Undef, Str(<<"x">>)}}
    \cup {TaskRow(id, name, rs, pp, d, mc) :
            id \in TaskIDCells, name \in NameCells, rs \in RequiredCells,
            pp \in {Undef, Str(<<"[", "1", ",", "2">>)}, d \in {Undef, Num(0)}, mc \in {Undef, Str(<<"x">>)}}
    \cup {TaskRow(Str(<<"T", "1">>), Str(<<"A">>), rs, pp, d, mc) :
            rs \in {Str(<<>>), Str(<<"e">>)}, pp \in PhasesCells, d \in {Undef, Num(0)},
            mc \in ConcurrentCells}
    \cup {WithDuration(TaskRow(Str(<<"T", "1">>), Str(<<"A">>), Str(<<>>), Undef, d, Undef), d) :
            d \in {Str(<<>>), Str(<<"0">>), Num(0), Num(2)}}

\* Datasets of up to MaxRows rows that combine faults.
CoreClientDatasets == {Data(rows) : rows \in SeqUpTo(CoreClientRows, MaxRows)}

CoreWorkerDatasets == {Data(rows) : rows \in SeqUpTo(CoreWorkerRows, MaxRows)}

CoreTaskDatasets == {Data(rows) : rows \in SeqUpTo(CoreTaskRows, MaxRows)}

\* Datasets of one row that vary the cells of the row.
RichClientDatasets == {Data(<<row>>) : row \in RichClientRows}

RichWorkerDatasets == {Data(<<row>>) : row \in RichWorkerRows}

RichTaskDatasets == {Data(<<row>>) : row \in RichTaskRows}

ClientDatasets == CoreClientDatasets \cup RichClientDatasets

WorkerDatasets == CoreWorkerDatasets \cup RichWorkerDatasets

TaskDatasets == CoreTaskDatasets \cup RichTaskDatasets

\* The datasets a validator is given as the referenced dataset.
RefTaskDatasets == {NullData} \cup CoreTaskDatasets

RefWorkerDatasets == {NullData} \cup CoreWorkerDatasets

\* The referenced datasets the one-row datasets are validated against.
SmallRefTaskDatasets == {NullData, Data(<<>>)} \cup {Data(<<row>>) : row \in CoreTaskRows}

SmallRefWorkerDatasets == {NullData, Data(<<>>)} \cup {Data(<<row>>) : row \in CoreWorkerRows}

(***************************************************************************)
(* Home: the datasets, the report and the error banner.                    *)
(***************************************************************************)
NoError == [kind |-> "null", type |-> "", missing |-> <<>>]
HeaderError(type, missing) == [kind |-> "headers", type |-> type, missing |-> missing]
ParseError == [kind |-> "parse", type |-> "", missing |-> <<>>]

DatasetTypes == {"clients", "workers", "tasks"}

requiredHeaders(type) ==
    CASE type = "clients" -> <<"ClientID">>
      [] type = "workers" -> <<"WorkerID">>
      [] OTHER -> <<"TaskID", "TaskName">>

\* rows.length ? Object.keys(rows[0]) : []
HeadersOf(rows) == IF rows = <<>> THEN {} ELSE {h \in DOMAIN rows[1] : rows[1][h].t # "u"}

MissingHeaders(type, rows) ==
    LET has(h) == h \notin HeadersOf(rows) IN SelectSeq(requiredHeaders(type), has)

\* What parseFile resolves to for an uploaded file, or that it rejects.
HomeRows(type) ==
    CASE type = "clients" -> {r \in CoreClientRows : r.ClientID = Str(<<"C", "1">>)}
      [] type = "workers" -> {r \in CoreWorkerRows : r.WorkerID = Str(<<"W", "1">>)}
      [] OTHER -> {r \in CoreTaskRows : r.TaskID = Str(<<"T", "1">>)}

NoHeaderRow(type) ==
    CASE type = "clients" -> ClientRow(Undef, Undef, Undef, Undef, Undef)
      [] type = "workers" -> WorkerRow(Undef, Undef, Undef, Undef, Undef)
      [] OTHER -> TaskRow(Str(<<"T", "1">>), Undef, Undef, Undef, Undef, Undef)

ParsedFiles(type) ==
    {[ok |-> TRUE, rows |-> rows] : rows \in SeqUpTo(HomeRows(type), MaxUploadRows)}
    \cup {[ok |-> TRUE, rows |-> <<NoHeaderRow(type)>>], [ok |-> FALSE, rows |-> <<>>]}

\* The state of the components that a specification does not run.
PageIdle ==
    /\ clientsData = <<>>
    /\ workersData = <<>>
    /\ tasksData = <<>>
    /\ pageValidationErrors = <<>>

HomeIdle ==
    /\ clients = NullData
    /\ workers = NullData
    /\ tasks = NullData
    /\ validationErrors = <<>>
    /\ error = NoError
    /\ activeTab = "tasks"

\* saveAs has not been called.
NoFile == [name |-> <<>>, rows |-> <<>>, prioritization |-> <<>>]

ExportIdle ==
    /\ prioritizationWeight = 50
    /\ saved = NoFile

OverlapIdle == uploads = <<>>

SearchIdle ==
    /\ isProcessing = FALSE
    /\ searchResults = <<>>
    /\ searches = <<>>

GridIdle ==
    /\ gridData = <<>>
    /\ pageSize = 10
    /\ searchTerm = <<>>
    /\ sortField = ""
    /\ sortDirection = "asc"
    /\ currentPage = 1

FileUploadIdle ==
    /\ uploadProgress = 0
    /\ uploadError = FALSE
    /\ timers = {}
    /\ dropped = 0
    /\ onUploadCalls = <<>>

SideIdle == ExportIdle /\ OverlapIdle /\ SearchIdle /\ GridIdle /\ FileUploadIdle

Init ==
    /\ HomeIdle
    /\ PageIdle
    /\ utilErrors = <<>>
    /\ firstErrors = <<>>
    /\ pc = "validated"
    /\ SideIdle

\* The validation useMemo, run by the render that follows a change of clients,
\* workers or tasks.
Revalidated == validationErrors' = Validation(clients', workers', tasks')

\* Mutant: the useMemo does not list tasks among its dependencies.
HandleUpload_TasksNotADependency(type, file) ==
    /\ ~file.ok => error' = ParseError
    /\ (file.ok /\ MissingHeaders(type, file.rows) # <<>>)
          => error' = HeaderError(type, MissingHeaders(type, file.rows))
    /\ IF file.ok /\ MissingHeaders(type, file.rows) = <<>>
       THEN /\ error' = NoError
            /\ clients' = IF type = "clients" THEN Data(file.rows) ELSE clients
            /\ workers' = IF type = "workers" THEN Data(file.rows) ELSE workers
            /\ tasks' = IF type = "tasks" THEN Data(file.rows) ELSE tasks
            /\ IF type = "tasks" THEN UNCHANGED validationErrors ELSE Revalidated
       ELSE UNCHANGED <<clients, workers, tasks, validationErrors>>
    /\ UNCHANGED <<activeTab, pageVars, utilErrors, firstErrors, pc, sideVars>>

\* handleUpload from the point where parseFile has settled: the header
\* check, the setters and the validation useMemo of the render that follows.
AfterParse(type, file) ==
    IF ~file.ok
    THEN /\ error' = ParseError
         /\ UNCHANGED <<clients, workers, tasks, validationErrors>>
    ELSE IF MissingHeaders(type, file.rows) # <<>>
    THEN /\ error' = HeaderError(type, MissingHeaders(type, file.rows))
         /\ UNCHANGED <<clients, workers, tasks, validationErrors>>
    ELSE /\ error' = NoError
         /\ clients' = IF type = "clients" THEN Data(file.rows) ELSE clients
         /\ workers' = IF type = "workers" THEN Data(file.rows) ELSE workers
         /\ tasks' = IF type = "tasks" THEN Data(file.rows) ELSE tasks
         /\ Revalidated

\* Mutant: the rows are stored before the headers are checked.
HandleUpload_StoreBeforeCheck(type, file) ==
    /\ IF ~file.ok
       THEN /\ error' = ParseError
            /\ UNCHANGED <<clients, workers, tasks, validationErrors>>
       ELSE /\ error' = IF MissingHeaders(type, file.rows) # <<>>
                        THEN HeaderError(type, MissingHeaders(type, file.rows))
                        ELSE NoError
            /\ clients' = IF type = "clients" THEN Data(file.rows) ELSE clients
            /\ workers' = IF type = "workers" THEN Data(file.rows) ELSE workers
            /\ tasks' = IF type = "tasks" THEN Data(file.rows) ELSE tasks
            /\ Revalidated
    /\ UNCHANGED <<activeTab, pageVars, utilErrors, firstErrors, pc, sideVars>>

\* handleUpload(type, file) as one step: the parse and what follows it.
HandleUpload(type, file) ==
    /\ AfterParse(type, file)
    /\ UNCHANGED <<activeTab, pageVars, utilErrors, firstErrors, pc, sideVars>>

Upload == \E type \in DatasetTypes : \E file \in ParsedFiles(type) : HandleUpload(type, file)

\* onClick of a tab button.
SetActiveTab(tab) ==
    /\ activeTab' = tab
    /\ UNCHANGED <<clients, workers, tasks, validationErrors, error>>
    /\ UNCHANGED <<pageVars, utilErrors, firstErrors, pc, sideVars>>

SelectTab == \E tab \in DatasetTypes : SetActiveTab(tab)

\* The onChange handler Home passes to the DataGrid: the edited rows replace
\* the dataset of the active tab, and the useMemo runs.  (The DataGrid of the
\* repository declares no onChange property; the handler is modelled as if a
\* grid called it.)
GridChange(next) ==
    /\ clients' = IF activeTab = "clients" THEN Data(next) ELSE clients
    /\ workers' = IF activeTab = "workers" THEN Data(next) ELSE workers
    /\ tasks' = IF activeTab = "tasks" THEN Data(next) ELSE tasks
    /\ Revalidated
    /\ UNCHANGED <<error, activeTab, pageVars, utilErrors, firstErrors, pc, sideVars>>

GridEdit == \E next \in SeqUpTo(HomeRows(activeTab), MaxUploadRows) : GridChange(next)

Next == Upload \/ SelectTab \/ GridEdit

Spec == Init /\ [][Next]_vars

(***************************************************************************)
(* AIResourceConfigurator (app/page.tsx): the datasets and the report.      *)
(* performAIValidation calls AIService.validateWithAI; services/ai.ts       *)
(* exports no AIService, so the call throws inside the try block and the    *)
(* catch leaves the state as it is.                                        *)
(***************************************************************************)
\* The report may grow with every upload; a run is cut at this length.
MaxPageErrors == 3

\* What reader.onload decodes from an uploaded file.
PageFiles(type) ==
    CASE type = "clients" ->
           {<<>>,
            <<ClientRow(Str(<<"C", "1">>), Str(<<"A">>), Str(<<"3">>), Str(<<>>), Str(<<>>))>>,
            <<ClientRow(Str(<<"C", "2">>), Str(<<"A">>), Str(<<"0">>), Str(<<>>), Str(<<>>))>>}
      [] type = "workers" ->
           {<<>>,
            <<WorkerRow(Str(<<"W", "1">>), Str(<<"A">>), Str(<<"p">>), Str(<<>>), Str(<<"3">>))>>,
            <<WorkerRow(Str(<<"W", "2">>), Str(<<>>), Str(<<"p">>), Str(<<>>), Str(<<"3">>))>>}
      [] OTHER ->
           {<<>>,
            <<TaskRow(Str(<<"T", "1">>), Str(<<"A">>), Str(<<"p">>), Str(<<>>), Str(<<"2">>), Str(<<"1">>))>>,
            <<TaskRow(Str(<<"T", "2">>), Str(<<>>), Str(<<"p">>), Str(<<>>), Str(<<"2">>), Str(<<"1">>))>>}

PageInit ==
    /\ HomeIdle
    /\ PageIdle
    /\ utilErrors = <<>>
    /\ firstErrors = <<>>
    /\ pc = "validated"
    /\ SideIdle

\* Mutant: the errors of the validator replace the report.
HandleFileUpload_Replace(type, data) ==
    /\ Len(PageErrors(type, data)) <= MaxPageErrors
    /\ clientsData' = IF type = "clients" THEN data ELSE clientsData
    /\ workersData' = IF type = "workers" THEN data ELSE workersData
    /\ tasksData' = IF type = "tasks" THEN data ELSE tasksData
    /\ pageValidationErrors' = PageErrors(type, data)
    /\ UNCHANGED <<homeVars, utilErrors, firstErrors, pc, sideVars>>

\* reader.onload of handleFileUpload(event, type): the dataset is stored, its
\* validator run and the report updated.
HandleFileUpload(type, data) ==
    /\ Len(PageSetErrors(pageValidationErrors, type, PageErrors(type, data))) <= MaxPageErrors
    /\ clientsData' = IF type = "clients" THEN data ELSE clientsData
    /\ workersData' = IF type = "workers" THEN data ELSE workersData
    /\ tasksData' = IF type = "tasks" THEN data ELSE tasksData
    /\ pageValidationErrors' = PageSetErrors(pageValidationErrors, type, PageErrors(type, data))
    /\ UNCHANGED <<homeVars, utilErrors, firstErrors, pc, sideVars>>

PageNext == \E type \in DatasetTypes : \E data \in PageFiles(type) : HandleFileUpload(type, data)

SpecPage == PageInit /\ [][PageNext]_vars

(***************************************************************************)
(* The validators as functions of their inputs: the datasets are drawn     *)
(* from the bounded sets and the validators are applied once, then once    *)
(* more on the same datasets.                                              *)
(***************************************************************************)
ValidateInit ==
    /\ validationErrors = <<>>
    /\ error = NoError
    /\ activeTab = "tasks"
    /\ PageIdle
    /\ utilErrors = <<>>
    /\ firstErrors = <<>>
    /\ pc = "start"
    /\ SideIdle
    /\ \/ clients \in CoreClientDatasets /\ tasks \in RefTaskDatasets /\ workers = NullData
       \/ clients \in RichClientDatasets /\ tasks \in SmallRefTaskDatasets /\ workers = NullData
       \/ tasks \in CoreTaskDatasets /\ workers \in RefWorkerDatasets /\ clients = NullData
       \/ tasks \in RichTaskDatasets /\ workers \in SmallRefWorkerDatasets /\ clients = NullData
       \/ workers \in WorkerDatasets /\ clients = NullData /\ tasks = NullData
       \/ /\ clients \in {Data(rows) : rows \in SeqUpTo(CoreClientRows, 1)}
          /\ workers \in {Data(rows) : rows \in SeqUpTo(CoreWorkerRows, 1)}
          /\ tasks \in {Data(rows) : rows \in SeqUpTo(CoreTaskRows, 1)}

\* What the validators of app/page.tsx build for the three datasets.
PageReport(c, w, t) ==
    PageErrors("clients", OrEmpty(c)) \o PageErrors("workers", OrEmpty(w))
        \o PageErrors("tasks", OrEmpty(t))

\* Mutant: a validator removes the last row of its dataset when it flags it.
DropFlaggedLast(data, entity, errs) ==
    IF data.present /\ \E k \in 1..Len(errs) :
                          errs[k].entity = entity /\ errs[k].rowIndex = Len(data.rows) - 1
    THEN Data(SubSeq(data.rows, 1, Len(data.rows) - 1))
    ELSE data

RunValidation_DropFlagged ==
    /\ pc = "start"
    /\ validationErrors' = Validation(clients, workers, tasks)
    /\ utilErrors' = IF clients.present THEN utilValidateClients(clients.rows) ELSE <<>>
    /\ pageValidationErrors' = PageReport(clients, workers, tasks)
    /\ pc' = "validated"
    /\ clients' = DropFlaggedLast(clients, "clients", validationErrors')
    /\ workers' = DropFlaggedLast(workers, "workers", validationErrors')
    /\ tasks' = DropFlaggedLast(tasks, "tasks", validationErrors')
    /\ UNCHANGED <<error, activeTab, firstErrors>>
    /\ UNCHANGED <<clientsData, workersData, tasksData, sideVars>>

RunValidation ==
    /\ pc = "start"
    /\ IF ValidationFails(clients, workers, tasks)
       THEN /\ pc' = "threw"
            /\ UNCHANGED <<validationErrors, utilErrors, pageValidationErrors>>
       ELSE /\ validationErrors' = Validation(clients, workers, tasks)
            /\ utilErrors' = IF clients.present THEN utilValidateClients(clients.rows)
                                                ELSE <<>>
            /\ pageValidationErrors' = PageReport(clients, workers, tasks)
            /\ pc' = "validated"
    /\ UNCHANGED <<clients, workers, tasks, error, activeTab, firstErrors>>
    /\ UNCHANGED <<clientsData, workersData, tasksData, sideVars>>

\* Mutant: the second run adds its errors to those of the first.
RunAgain_Accumulate ==
    /\ pc = "validated"
    /\ firstErrors' = validationErrors
    /\ validationErrors' = validationErrors \o Validation(clients, workers, tasks)
    /\ pc' = "revalidated"
    /\ UNCHANGED <<clients, workers, tasks, error, activeTab, utilErrors, pageVars, sideVars>>

\* The validation is run a second time over the datasets of the first run;
\* the report of the first run is kept for comparison.
RunAgain ==
    /\ pc = "validated"
    /\ firstErrors' = validationErrors
    /\ validationErrors' = Validation(clients, workers, tasks)
    /\ pc' = "revalidated"
    /\ UNCHANGED <<clients, workers, tasks, error, activeTab, utilErrors, pageVars, sideVars>>

ValidateNext == RunValidation \/ RunAgain

SpecValidate == ValidateInit /\ [][ValidateNext]_vars

(***************************************************************************)
(* Home: the prioritization slider and the Export Rules button.            *)
(***************************************************************************)
\* <input type="range" min="0" max="100">
SliderMin == 0
SliderMax == 100

\* Mutant: both shares are the slider value.
Prioritization_SameShare(weight) ==
    [clientPriority |-> weight, taskEfficiency |-> weight]

\* The prioritization object of rules.json.
Prioritization(weight) ==
    [clientPriority |-> 100 - weight, taskEfficiency |-> weight]

\* onChange of the slider: the value of the input is the decimal text of an
\* integer between min and max, and Number(...) converts it.
SetPrioritizationWeight(value) ==
    /\ prioritizationWeight' = StringToNumber(value).v
    /\ UNCHANGED <<saved, homeVars, pageVars, validateVars>>
    /\ UNCHANGED <<overlapVars, searchVars, gridVars, fileVars>>

MoveSlider == \E v \in SliderMin..SliderMax : SetPrioritizationWeight(NatToStr(v))

\* handleExportRules: saveAs(blob, "rules.json")
HandleExportRules ==
    /\ saved' = [name |-> <<"rules.json">>, rows |-> <<>>,
                 prioritization |-> <<Prioritization(prioritizationWeight)>>]
    /\ UNCHANGED <<prioritizationWeight, homeVars, pageVars, validateVars>>
    /\ UNCHANGED <<overlapVars, searchVars, gridVars, fileVars>>

SliderNext == MoveSlider \/ HandleExportRules

SpecSlider == Init /\ [][SliderNext]_vars

(***************************************************************************)
(* Home: the export buttons.  None of them has a disabled attribute or a    *)
(* test of validationErrors.                                               *)
(***************************************************************************)
sampleTasks == <<
    [TaskID |-> Str(<<"T", "0", "0", "1">>),
     TaskName |-> Str(<<"I", "n", "s", "t", "a", "l", "l", " ", "S", "i", "n", "k">>),
     Category |-> Str(<<"P", "l", "u", "m", "b", "i", "n", "g">>),
     DurationPhases |-> Num(2),
     RequiredSkills |-> Str(<<"c", "a", "r", "p", "e", "n", "t", "r", "y">>),
     PreferredPhases |-> Str(<<"[", "1", ",", "2", "]">>),
     MaxConcurrent |-> Num(1)],
    [TaskID |-> Str(<<"T", "0", "0", "2">>),
     TaskName |-> Str(<<"F", "i", "x", " ", "L", "i", "g", "h", "t">>),
     Category |-> Str(<<"E", "l", "e", "c", "t", "r", "i", "c", "a", "l">>),
     DurationPhases |-> Num(1),
     RequiredSkills |-> Str(<<"c", "a", "r", "p", "e", "n", "t", "r", "y">>),
     PreferredPhases |-> Str(<<"1", "-", "3">>),
     MaxConcurrent |-> Num(1)],
    [TaskID |-> Str(<<"T", "0", "0", "3">>),
     TaskName |-> Str(<<"P", "a", "i", "n", "t", " ", "W", "a", "l", "l">>),
     Category |-> Str(<<"P", "a", "i", "n", "t", "i", "n", "g">>),
     DurationPhases |-> Num(3),
     RequiredSkills |-> Str(<<"c", "a", "r", "p", "e", "n", "t", "r", "y">>),
     PreferredPhases |-> Str(<<"[", "2", ",", "3", ",", "4", "]">>),
     MaxConcurrent |-> Num(1)]>>

\* The activeData useMemo.
ActiveData ==
    CASE activeTab = "clients" -> OrEmpty(clients)
      [] activeTab = "workers" -> OrEmpty(workers)
      [] OTHER -> IF tasks.present THEN tasks.rows ELSE sampleTasks

\* onClick of Export CSV: saveAs(blob, `${activeTab}.csv`) with the rows of
\* activeData.
ExportCSV ==
    /\ saved' = [name |-> <<activeTab, ".csv">>, rows |-> ActiveData, prioritization |-> <<>>]
    /\ UNCHANGED <<prioritizationWeight, homeVars, pageVars, validateVars>>
    /\ UNCHANGED <<overlapVars, searchVars, gridVars, fileVars>>

\* onClick of Export XLSX: saveAs(blob, `${activeTab}.xlsx`)
ExportXLSX ==
    /\ saved' = [name |-> <<activeTab, ".xlsx">>, rows |-> ActiveData, prioritization |-> <<>>]
    /\ UNCHANGED <<prioritizationWeight, homeVars, pageVars, validateVars>>
    /\ UNCHANGED <<overlapVars, searchVars, gridVars, fileVars>>

\* The files uploaded before an export: without rows, with a clean row, with
\* a faulty row, without the required headers, and one that fails to parse.
ExportFiles(type) ==
    {[ok |-> TRUE, rows |-> rows] : rows \in PageFiles(type)}
    \cup {[ok |-> TRUE, rows |-> <<NoHeaderRow(type)>>], [ok |-> FALSE, rows |-> <<>>]}

ExportUpload ==
    \E type \in DatasetTypes : \E file \in ExportFiles(type) : HandleUpload(type, file)

ExportNext == ExportUpload \/ SelectTab \/ ExportCSV \/ ExportXLSX \/ HandleExportRules

SpecExport == Init /\ [][ExportNext]_vars

(***************************************************************************)
(* Home: uploads that overlap.  handleUpload is an async function: a call   *)
(* runs to await parseFile(file) and resumes when the parse of its file has *)
(* settled; the parses of different calls settle in any order.              *)
(***************************************************************************)
\* The calls of handleUpload of one run.
MaxUploads == 3

OverlapFiles(type) == ExportFiles(type)

\* handleUpload(type, file) up to its await.
StartUpload(type, file) ==
    /\ Len(uploads) < MaxUploads
    /\ uploads' = Append(uploads, [type |-> type, file |-> file, at |-> "parsing"])
    /\ UNCHANGED <<homeVars, pageVars, validateVars>>
    /\ UNCHANGED <<exportVars, searchVars, gridVars, fileVars>>

BeginUpload == \E type \in DatasetTypes : \E file \in OverlapFiles(type) : StartUpload(type, file)

\* The parse of call i settles and the call resumes.
FinishUpload(i) ==
    /\ uploads[i].at = "parsing"
    /\ AfterParse(uploads[i].type, uploads[i].file)
    /\ uploads' = [uploads EXCEPT ![i].at = "done"]
    /\ UNCHANGED <<activeTab, pageVars, validateVars>>
    /\ UNCHANGED <<exportVars, searchVars, gridVars, fileVars>>

ParseSettles == \E i \in 1..Len(uploads) : FinishUpload(i)

OverlapNext == BeginUpload \/ ParseSettles

SpecOverlap == Init /\ [][OverlapNext]_vars

(***************************************************************************)
(* AIResourceConfigurator: the natural-language searches.  Both handlers    *)
(* set isProcessing, await the answer of the AI service and clear           *)
(* isProcessing in a finally block.  handleSearch awaits fetch('/api/ai'):  *)
(* a call is awaiting its answer or done, the answers arrive in any order,  *)
(* and an answer is a result or a failure.  handleNaturalLanguageSearch     *)
(* calls AIService.processNaturalLanguageQuery; services/ai.ts exports no   *)
(* AIService, so the call throws before anything is awaited and the         *)
(* finally block runs in the same step.                                    *)
(***************************************************************************)
\* The calls of the search handlers of one run.
MaxSearches == 3

SearchQueries == {<<"a">>, <<"b">>}

\* handleNaturalLanguageSearch(query): setIsProcessing(true), the failing
\* call, setIsProcessing(false).
HandleNaturalLanguageSearch(query) ==
    /\ Len(searches) < MaxSearches
    /\ isProcessing' = FALSE
    /\ searches' = Append(searches, [handler |-> "handleNaturalLanguageSearch",
                                     query |-> query, at |-> "done"])
    /\ UNCHANGED <<searchResults, homeVars, pageVars, validateVars>>
    /\ UNCHANGED <<exportVars, overlapVars, gridVars, fileVars>>

\* handleSearch(query) up to its await: setIsProcessing(true) and the request.
StartSearch(query) ==
    /\ Len(searches) < MaxSearches
    /\ isProcessing' = TRUE
    /\ searches' = Append(searches, [handler |-> "handleSearch", query |-> query,
                                     at |-> "awaiting"])
    /\ UNCHANGED <<searchResults, homeVars, pageVars, validateVars>>
    /\ UNCHANGED <<exportVars, overlapVars, gridVars, fileVars>>

BeginSearch ==
    \E query \in SearchQueries : HandleNaturalLanguageSearch(query) \/ StartSearch(query)

\* The answer of call i arrives: setSearchResults(result.result) when the
\* response is ok, and the finally block in either case.
FinishSearch(i, ok) ==
    /\ searches[i].at = "awaiting"
    /\ searchResults' = IF ok THEN <<[query |-> searches[i].query]>> ELSE searchResults
    /\ isProcessing' = FALSE
    /\ searches' = [searches EXCEPT ![i].at = "done"]
    /\ UNCHANGED <<homeVars, pageVars, validateVars>>
    /\ UNCHANGED <<exportVars, overlapVars, gridVars, fileVars>>

AnswerArrives == \E i \in 1..Len(searches) : \E ok \in BOOLEAN : FinishSearch(i, ok)

SearchNext == BeginSearch \/ AnswerArrives

SpecSearch == PageInit /\ [][SearchNext]_vars

(***************************************************************************)
(* DataGrid (utils/ai-service.ts): search, sort and paging.  The rows and   *)
(* the page size are properties set by the parent.                         *)
(***************************************************************************)
MaxGridRows == 3
MaxPageSize == 2
\* Next is never disabled while the filter matches no row; a run is cut at
\* this page.
MaxGridPage == 4

GridItems ==
    {[id |-> Str(<<"a">>), n |-> Num(2)],
     [id |-> Str(<<"B">>), n |-> Num(1)],
     [id |-> Str(<<"a", "b">>), n |-> Num(1)]}

GridFields == {"id", "n"}

SearchTerms == {<<>>, <<"a">>, <<"B">>, <<"1">>, <<"z">>}

\* The characters of the grid in the order of their code units.
GridAlphabet == <<"1", "2", "A", "B", "a", "b", "z">>

CodeOf(c) == CHOOSE k \in 1..Len(GridAlphabet) : GridAlphabet[k] = c

\* String.prototype.toLowerCase
ToLowerCase(chars) ==
    [k \in 1..Len(chars) |->
        CASE chars[k] = "A" -> "a" [] chars[k] = "B" -> "b" [] OTHER -> chars[k]]

\* String.prototype.includes
Includes(text, word) == IndexOf(text, word) # -1

\* data.filter(item => Object.values(item).some(value =>
\*     String(value).toLowerCase().includes(searchTerm.toLowerCase())))
FilteredData ==
    SelectSeq(gridData,
              LAMBDA item : \E f \in DOMAIN item :
                  Includes(ToLowerCase(ToStr(item[f])), ToLowerCase(searchTerm)))

\* x < y of two strings: by code units.
RECURSIVE TextLess(_, _)
TextLess(x, y) ==
    IF y = <<>> THEN FALSE
    ELSE IF x = <<>> THEN TRUE
    ELSE IF Head(x) = Head(y) THEN TextLess(Tail(x), Tail(y))
    ELSE CodeOf(Head(x)) < CodeOf(Head(y))

\* a < b of two cells: strings by code units, anything else as numbers.
CellLess(a, b) ==
    IF a.t = "s" /\ b.t = "s" THEN TextLess(a.s, b.s)
    ELSE ~ToNumber(a).nan /\ ~ToNumber(b).nan /\ ToNumber(a).v < ToNumber(b).v

\* The comparator of sortedData: negative, zero or positive.
Compare(a, b) ==
    IF CellLess(a[sortField], b[sortField]) THEN (IF sortDirection = "asc" THEN -1 ELSE 1)
    ELSE IF CellLess(b[sortField], a[sortField]) THEN (IF sortDirection = "asc" THEN 1 ELSE -1)
    ELSE 0

\* Array.prototype.sort is stable: x goes before the first row that does not
\* compare before it.
RECURSIVE InsertRow(_, _)
InsertRow(x, sorted) ==
    IF sorted = <<>> THEN <<x>>
    ELSE IF Compare(x, Head(sorted)) <= 0 THEN <<x>> \o sorted
    ELSE <<Head(sorted)>> \o InsertRow(x, Tail(sorted))

RECURSIVE SortRows(_)
SortRows(rows) == IF rows = <<>> THEN <<>> ELSE InsertRow(Head(rows), SortRows(Tail(rows)))

SortedData == IF sortField = "" THEN FilteredData ELSE SortRows(FilteredData)

\* Math.ceil(sortedData.length / pageSize)
TotalPages == (Len(SortedData) + pageSize - 1) \div pageSize

\* sortedData.slice(start, start + pageSize)
PaginatedData ==
    LET start == (currentPage - 1) * pageSize
        end == IF start + pageSize < Len(SortedData) THEN start + pageSize ELSE Len(SortedData)
    IN SubSeq(SortedData, start + 1, end)

\* The disabled attributes of the two paging buttons.
PreviousDisabled == currentPage = 1
NextDisabled == currentPage = TotalPages

GridInit ==
    /\ HomeIdle /\ PageIdle
    /\ utilErrors = <<>> /\ firstErrors = <<>> /\ pc = "validated"
    /\ ExportIdle /\ OverlapIdle /\ SearchIdle /\ FileUploadIdle
    /\ gridData \in SeqUpTo(GridItems, MaxGridRows)
    /\ pageSize \in 1..MaxPageSize
    /\ searchTerm = <<>>
    /\ sortField = ""
    /\ sortDirection = "asc"
    /\ currentPage = 1

\* onChange of the search box.
SetSearchTerm(term) ==
    /\ searchTerm' = term
    /\ UNCHANGED <<gridData, pageSize, sortField, sortDirection, currentPage>>
    /\ UNCHANGED <<homeVars, pageVars, validateVars, exportVars, overlapVars, searchVars, fileVars>>

TypeSearch == \E term \in SearchTerms : SetSearchTerm(term)

\* handleSort(field), the onClick of a sortable column header.
HandleSort(field) ==
    /\ IF sortField = field
       THEN /\ sortDirection' = IF sortDirection = "asc" THEN "desc" ELSE "asc"
            /\ UNCHANGED sortField
       ELSE /\ sortField' = field
            /\ sortDirection' = "asc"
    /\ UNCHANGED <<gridData, pageSize, searchTerm, currentPage>>
    /\ UNCHANGED <<homeVars, pageVars, validateVars, exportVars, overlapVars, searchVars, fileVars>>

ClickHeader == \E field \in GridFields : HandleSort(field)

\* onClick of Previous.
PreviousPage ==
    /\ ~PreviousDisabled
    /\ currentPage' = currentPage - 1
    /\ UNCHANGED <<gridData, pageSize, searchTerm, sortField, sortDirection>>
    /\ UNCHANGED <<homeVars, pageVars, validateVars, exportVars, overlapVars, searchVars, fileVars>>

\* onClick of Next.
NextPage ==
    /\ ~NextDisabled
    /\ currentPage < MaxGridPage
    /\ currentPage' = currentPage + 1
    /\ UNCHANGED <<gridData, pageSize, searchTerm, sortField, sortDirection>>
    /\ UNCHANGED <<homeVars, pageVars, validateVars, exportVars, overlapVars, searchVars, fileVars>>

\* The parent renders the grid with other rows.
SetGridData(rows) ==
    /\ gridData' = rows
    /\ UNCHANGED <<pageSize, searchTerm, sortField, sortDirection, currentPage>>
    /\ UNCHANGED <<homeVars, pageVars, validateVars, exportVars, overlapVars, searchVars, fileVars>>

DataChanges == \E rows \in SeqUpTo(GridItems, MaxGridRows) : SetGridData(rows)

GridNext == TypeSearch \/ ClickHeader \/ PreviousPage \/ NextPage \/ DataChanges

SpecGrid == GridInit /\ [][GridNext]_vars

(***************************************************************************)
(* FileUpload: the drop handler and the interval timers that move the       *)
(* progress bar.  A timer is named by the number of the drop that started   *)
(* it.                                                                     *)
(***************************************************************************)
\* The drops of one run that start a timer.
MaxDrops == 2

\* 10 * 1024 * 1024
MaxFileSize == 10 * 1024 * 1024

FileSizes == {1, MaxFileSize, MaxFileSize + 1}

\* onDrop with a file above the limit: setError and return.
DropTooLarge(size) ==
    /\ size > MaxFileSize
    /\ uploadError' = TRUE
    /\ UNCHANGED <<uploadProgress, timers, dropped, onUploadCalls>>
    /\ UNCHANGED <<homeVars, pageVars, validateVars, exportVars, overlapVars, searchVars, gridVars>>

\* onDrop with a file within the limit: the error is cleared, the progress
\* reset, a timer started and the file handed to onUpload.
DropAccepted(size) ==
    /\ ~(size > MaxFileSize)
    /\ dropped < MaxDrops
    /\ uploadError' = FALSE
    /\ uploadProgress' = 0
    /\ dropped' = dropped + 1
    /\ timers' = timers \cup {dropped + 1}
    /\ onUploadCalls' = Append(onUploadCalls, size)
    /\ UNCHANGED <<homeVars, pageVars, validateVars, exportVars, overlapVars, searchVars, gridVars>>

OnDrop == \E size \in FileSizes : DropTooLarge(size) \/ DropAccepted(size)

\* Mutant: the callback keeps the progress at 100 without clearing its timer.
Tick_NeverCleared(t) ==
    /\ t \in timers
    /\ uploadProgress' = IF uploadProgress >= 100 THEN 100 ELSE uploadProgress + 10
    /\ UNCHANGED <<timers, uploadError, dropped, onUploadCalls>>
    /\ UNCHANGED <<homeVars, pageVars, validateVars, exportVars, overlapVars, searchVars, gridVars>>

\* The callback of timer t: the updater of setUploadProgress.
Tick(t) ==
    /\ t \in timers
    /\ IF uploadProgress >= 100
       THEN /\ timers' = timers \ {t}
            /\ uploadProgress' = 100
       ELSE /\ uploadProgress' = uploadProgress + 10
            /\ UNCHANGED timers
    /\ UNCHANGED <<uploadError, dropped, onUploadCalls>>
    /\ UNCHANGED <<homeVars, pageVars, validateVars, exportVars, overlapVars, searchVars, gridVars>>

TimerFires == \E t \in 1..MaxDrops : Tick(t)

FileUploadNext == OnDrop \/ TimerFires

SpecFileUpload == Init /\ [][FileUploadNext]_vars

\* An interval timer that has not been cleared fires again and again.
SpecFileUploadFair == SpecFileUpload /\ \A t \in 1..MaxDrops : WF_vars(Tick(t))

(***************************************************************************)
(* Properties                                                              *)
(***************************************************************************)
Validated == pc = "validated"

\* The errors of a report that satisfy a test, in report order.
CountWhere(errs, Test(_)) == Len(SelectSeq(errs, Test))

HasType(errs, type) == \E k \in 1..Len(errs) : errs[k].type = type

RowIndexes(data) == 0..(Len(data.rows) - 1)

\* C1: while clients are loaded and the tasks state is null, the report holds
\* no UnknownReference error, whatever RequestedTaskIDs contain.
C1_NoUnknownReferenceWithoutTasks ==
    (Validated /\ clients.present /\ ~tasks.present)
        => ~HasType(validationErrors, "UnknownReference")

\* C2: while tasks are loaded and the workers state is null, the report holds
\* no SkillCoverage error, whatever RequiredSkills contain.
C2_NoSkillCoverageWithoutWorkers ==
    (Validated /\ tasks.present /\ ~workers.present)
        => ~HasType(validationErrors, "SkillCoverage")

\* C3: a Task dataset that is present with zero rows gives no UnknownReference
\* and a Worker dataset that is present with zero rows gives no SkillCoverage.
C3_NoReferentialErrorsAgainstEmptyDataset ==
    Validated =>
        /\ (clients.present /\ tasks.present /\ tasks.rows = <<>>)
              => ~HasType(validationErrors, "UnknownReference")
        /\ (tasks.present /\ workers.present /\ workers.rows = <<>>)
              => ~HasType(validationErrors, "SkillCoverage")

\* Row k (1-based) repeats the identifier of an earlier row.
EarlierSame(rows, k, idField) == \E j \in 1..(k - 1) : rows[j][idField] = rows[k][idField]

DuplicateCount(errs, entity, i) ==
    CountWhere(errs, LAMBDA e : e.type = "DuplicateID" /\ e.entity = entity /\ e.rowIndex = i)

DuplicatesExact(data, entity, idField) ==
    data.present =>
        /\ \A k \in 1..Len(data.rows) :
              DuplicateCount(validationErrors, entity, k - 1)
                  = IF EarlierSame(data.rows, k, idField) THEN 1 ELSE 0
        /\ \A n \in 1..Len(validationErrors) :
              LET e == validationErrors[n]
              IN (e.type = "DuplicateID" /\ e.entity = entity)
                    => e.rowIndex \in RowIndexes(data) /\ e.field = idField

\* C4: a DuplicateID error is emitted for row i exactly when an earlier row
\* carries the same identifier, once, on the later row; in validateClients,
\* validateWorkers and validateTasks of Home and in validateClients of
\* utils/validation.ts (1-based row).
C4_DuplicateIDOnLaterOccurrences ==
    Validated =>
        /\ DuplicatesExact(clients, "clients", "ClientID")
        /\ DuplicatesExact(workers, "workers", "WorkerID")
        /\ DuplicatesExact(tasks, "tasks", "TaskID")
        /\ \A n \in 1..Len(validationErrors) :
              validationErrors[n].type = "DuplicateID"
                  => \/ validationErrors[n].entity = "clients" /\ clients.present
                     \/ validationErrors[n].entity = "workers" /\ workers.present
                     \/ validationErrors[n].entity = "tasks" /\ tasks.present
        /\ clients.present =>
              \A k \in 1..Len(clients.rows) :
                  CountWhere(utilErrors, LAMBDA e : e.type = "duplicate_id" /\ e.row = k)
                      = IF EarlierSame(clients.rows, k, "ClientID") THEN 1 ELSE 0

\* Two client rows with ClientID C1: one DuplicateID, on index 1.
C4_Witness ==
    /\ Validated
    /\ Len(clients.rows) = 2
    /\ clients.rows[1].ClientID = Str(<<"C", "1">>)
    /\ clients.rows[2].ClientID = Str(<<"C", "1">>)
    /\ DuplicateCount(validationErrors, "clients", 0) = 0
    /\ DuplicateCount(validationErrors, "clients", 1) = 1

\* List parsing as the specification states it: split on ',', each element
\* trimmed, empty elements dropped.
ListEntries(cell) ==
    IF cell.t = "s" THEN SelectSeq(MapTrim(Split(cell.s)), LAMBDA x : x # <<>>) ELSE <<>>

MessageArgs(errs) == [n \in 1..Len(errs) |-> errs[n].message.arg]

ErrorsOfRow(errs, type, entity, i) ==
    SelectSeq(errs, LAMBDA e : e.type = type /\ e.entity = entity /\ e.rowIndex = i)

NoTaskHasID(entry) == \A t \in 1..Len(tasks.rows) : tasks.rows[t].TaskID # Str(entry)

\* C5: with a non-empty Task dataset, a client row gets one UnknownReference
\* (entity clients, field RequestedTaskIDs, its row index) for each entry of
\* RequestedTaskIDs that equals no TaskID, and none for an entry that does.
C5_UnknownReferencePerUnmatchedEntry ==
    (Validated /\ clients.present /\ tasks.present /\ tasks.rows # <<>>) =>
        /\ \A k \in 1..Len(clients.rows) :
              MessageArgs(ErrorsOfRow(validationErrors, "UnknownReference", "clients", k - 1))
                  = SelectSeq(ListEntries(clients.rows[k].RequestedTaskIDs), NoTaskHasID)
        /\ \A n \in 1..Len(validationErrors) :
              validationErrors[n].type = "UnknownReference"
                  => /\ validationErrors[n].entity = "clients"
                     /\ validationErrors[n].field = "RequestedTaskIDs"
                     /\ validationErrors[n].rowIndex \in RowIndexes(clients)

\* RequestedTaskIDs " T9 ,,T1" against tasks that hold T1 and not T9: exactly
\* one UnknownReference, for T9.
C5_Witness ==
    /\ Validated
    /\ tasks.present /\ tasks.rows # <<>>
    /\ \E t \in 1..Len(tasks.rows) : tasks.rows[t].TaskID = Str(<<"T", "1">>)
    /\ Len(clients.rows) = 1
    /\ clients.rows[1].RequestedTaskIDs = Str(<<" ", "T", "9", " ", ",", ",", "T", "1">>)
    /\ MessageArgs(ErrorsOfRow(validationErrors, "UnknownReference", "clients", 0))
          = <<<<"T", "9">>>>

\* The union of the parsed Skills of all workers.
CoveredSkills ==
    UNION {{ListEntries(workers.rows[w].Skills)[j] :
                j \in 1..Len(ListEntries(workers.rows[w].Skills))} :
           w \in 1..Len(workers.rows)}

NotCovered(skill) == skill \notin CoveredSkills

\* C6: with a non-empty Worker dataset, a task row gets one SkillCoverage
\* (entity tasks, field RequiredSkills, its row index) for each entry of
\* RequiredSkills absent from the union of the workers' Skills, none otherwise.
C6_SkillCoveragePerUncoveredSkill ==
    (Validated /\ tasks.present /\ workers.present /\ workers.rows # <<>>) =>
        /\ \A k \in 1..Len(tasks.rows) :
              MessageArgs(ErrorsOfRow(validationErrors, "SkillCoverage", "tasks", k - 1))
                  = SelectSeq(ListEntries(tasks.rows[k].RequiredSkills), NotCovered)
        /\ \A n \in 1..Len(validationErrors) :
              validationErrors[n].type = "SkillCoverage"
                  => /\ validationErrors[n].entity = "tasks"
                     /\ validationErrors[n].field = "RequiredSkills"
                     /\ validationErrors[n].rowIndex \in RowIndexes(tasks)

\* Workers [{W1, Skills "p"}] and tasks [{T1, RequiredSkills "p,e"}]: exactly
\* one SkillCoverage, for e, on row 0.
C6_Witness ==
    /\ Validated
    /\ Len(workers.rows) = 1
    /\ workers.rows[1].Skills = Str(<<"p">>)
    /\ Len(tasks.rows) = 1
    /\ tasks.rows[1].TaskID = Str(<<"T", "1">>)
    /\ tasks.rows[1].RequiredSkills = Str(<<"p", ",", "e">>)
    /\ MessageArgs(ErrorsOfRow(validationErrors, "SkillCoverage", "tasks", 0)) = <<<<"e">>>>

FieldLevelTypes ==
    {"DuplicateID", "MissingRequired", "OutOfRange", "MalformedValue", "MalformedList",
     "BrokenJSON"}

ReferentialTypes == {"UnknownReference", "SkillCoverage"}

AllLoaded ==
    /\ clients.present /\ clients.rows # <<>>
    /\ workers.present /\ workers.rows # <<>>
    /\ tasks.present /\ tasks.rows # <<>>

EntityRank(entity) ==
    CASE entity = "clients" -> 1 [] entity = "workers" -> 2 [] OTHER -> 3

DeclaredRank(e) ==
    CASE e.type = "DuplicateID" -> 1
      [] e.type = "MissingRequired" -> 2
      [] e.field \in {"PriorityLevel", "Skills", "RequiredSkills"} -> 3
      [] e.field \in {"RequestedTaskIDs", "AvailableSlots", "PreferredPhases"} -> 4
      [] e.field \in {"AttributesJSON", "MaxLoadPerPhase", "DurationPhases"} -> 5
      [] OTHER -> 6

\* The order of the checks in the validators of Home.
CodeRank(e) ==
    CASE e.type = "DuplicateID" -> 1
      [] e.field \in {"PriorityLevel", "AvailableSlots", "DurationPhases"} -> 2
      [] e.field \in {"RequestedTaskIDs", "MaxLoadPerPhase", "RequiredSkills"} -> 3
      [] e.field \in {"AttributesJSON", "PreferredPhases"} -> 4
      [] OTHER -> 5

UtilDeclaredRank(e) ==
    CASE e.type = "duplicate_id" -> 1
      [] e.type = "missing_required" -> 2
      [] e.type = "out_of_range" -> 3
      [] OTHER -> 5

UtilCodeRank(e) ==
    CASE e.type = "duplicate_id" -> 1
      [] e.type = "out_of_range" -> 2
      [] e.type = "missing_required" -> 3
      [] OTHER -> 4

RowsThenRank(errs, Rank(_)) ==
    \A a, b \in 1..Len(errs) :
        (a < b /\ errs[a].entity = errs[b].entity) =>
            \/ errs[a].rowIndex < errs[b].rowIndex
            \/ errs[a].rowIndex = errs[b].rowIndex /\ Rank(errs[a]) <= Rank(errs[b])

UtilRowsThenRank(errs, Rank(_)) ==
    \A a, b \in 1..Len(errs) :
        a < b =>
            \/ errs[a].row < errs[b].row
            \/ errs[a].row = errs[b].row /\ Rank(errs[a]) <= Rank(errs[b])

\* Every referential check that runs has a non-empty dataset to refer to.
ReferencesLoaded ==
    /\ clients.present => (tasks.present /\ tasks.rows # <<>>)
    /\ tasks.present => (workers.present /\ workers.rows # <<>>)

\* C8 as stated: within a row the errors come in the order DuplicateID,
\* MissingRequired, then the fields in declared order (tasks: RequiredSkills,
\* PreferredPhases, DurationPhases, MaxConcurrent), and rows come in order.
\* Stated for the case where the referenced datasets are loaded.
C8_DeclaredOrderWithinRow ==
    (Validated /\ ReferencesLoaded) =>
        /\ RowsThenRank(validationErrors, DeclaredRank)
        /\ UtilRowsThenRank(utilErrors, UtilDeclaredRank)

\* C8 as amended: within a row the errors come in the order of the checks in
\* the code (tasks: DurationPhases, RequiredSkills, PreferredPhases,
\* MaxConcurrent; validation.ts: duplicate, PriorityLevel, required, JSON),
\* and rows come in order.
C8_CodeOrderWithinRow ==
    Validated =>
        /\ RowsThenRank(validationErrors, CodeRank)
        /\ UtilRowsThenRank(utilErrors, UtilCodeRank)

TypesOf(errs) == [n \in 1..Len(errs) |-> errs[n].type]

\* The second task row repeats T1 and fails every check, against workers that
\* cover neither of its skills: its errors come in the order of the code.
C8_Witness ==
    /\ Validated
    /\ workers.present /\ workers.rows # <<>>
    /\ Len(tasks.rows) = 2
    /\ TypesOf(SelectSeq(validationErrors, LAMBDA e : e.entity = "tasks" /\ e.rowIndex = 1))
          = <<"DuplicateID", "OutOfRange", "SkillCoverage", "SkillCoverage",
              "MalformedList", "MalformedValue">>

EmptyOrMissing(cell) == cell.t = "u" \/ cell = Str(<<>>)

MissingRequiredExact(data, entity, idField, nameField) ==
    data.present =>
        \A k \in 1..Len(data.rows) :
            (\E n \in 1..Len(validationErrors) :
                /\ validationErrors[n].type = "MissingRequired"
                /\ validationErrors[n].entity = entity
                /\ validationErrors[n].rowIndex = k - 1)
            <=> (EmptyOrMissing(data.rows[k][idField]) \/ EmptyOrMissing(data.rows[k][nameField]))

\* C9: in each of the three datasets a row whose identifier or name is empty or
\* missing yields a MissingRequired error on that row, and a row with both
\* filled yields none.
C9_MissingRequiredOnEmptyIdOrName ==
    Validated =>
        /\ MissingRequiredExact(clients, "clients", "ClientID", "ClientName")
        /\ MissingRequiredExact(workers, "workers", "WorkerID", "WorkerName")
        /\ MissingRequiredExact(tasks, "tasks", "TaskID", "TaskName")

\* The cell carries a number: a native number or numeric text.
CarriesNumber(cell) == cell.t \in {"n", "s"} /\ cell # Str(<<>>) /\ ~ToNumber(cell).nan

\* C10: a client row that carries a PriorityLevel v gets exactly one OutOfRange
\* error on PriorityLevel when v < 1 or v > 5 and none when 1 <= v <= 5.
C10_PriorityLevelOutOfRange ==
    (Validated /\ clients.present) =>
        \A k \in 1..Len(clients.rows) :
            LET cell == clients.rows[k].PriorityLevel
                v == ToNumber(cell).v
                found == SelectSeq(validationErrors,
                                   LAMBDA e : /\ e.entity = "clients"
                                              /\ e.rowIndex = k - 1
                                              /\ e.field = "PriorityLevel")
            IN CarriesNumber(cell) =>
                  /\ Len(found) = IF v < 1 \/ v > 5 THEN 1 ELSE 0
                  /\ \A n \in 1..Len(found) : found[n].type = "OutOfRange"

ErrorsOnField(errs, entity, i, field) ==
    SelectSeq(errs, LAMBDA e : e.entity = entity /\ e.rowIndex = i /\ e.field = field)

\* C11: a task row that carries a DurationPhases d (a number or numeric text)
\* gets exactly one OutOfRange error on DurationPhases when d < 1 and none
\* when d >= 1.
C11_DurationPhasesOutOfRange ==
    (Validated /\ tasks.present) =>
        \A k \in 1..Len(tasks.rows) :
            LET cell == tasks.rows[k].DurationPhases
                v == ToNumber(cell).v
                found == ErrorsOnField(validationErrors, "tasks", k - 1, "DurationPhases")
            IN CarriesNumber(cell) =>
                  /\ Len(found) = IF v < 1 THEN 1 ELSE 0
                  /\ \A n \in 1..Len(found) : found[n].type = "OutOfRange"

\* The grammar of PreferredPhases as section 3 states it, read character by
\* character: '[' digits (',' digits)* ']', or digits '-' digits.
RECURSIVE DigitsEnd(_, _)
DigitsEnd(chars, i) ==
    IF i <= Len(chars) /\ IsDigit(chars[i]) THEN DigitsEnd(chars, i + 1) ELSE i

RECURSIVE ListTail(_, _)
ListTail(chars, i) ==
    LET j == DigitsEnd(chars, i)
    IN /\ j > i
       /\ j <= Len(chars)
       /\ \/ chars[j] = "]" /\ j = Len(chars)
          \/ chars[j] = "," /\ ListTail(chars, j + 1)

InListGrammar(chars) == chars # <<>> /\ chars[1] = "[" /\ ListTail(chars, 2)

InRangeGrammar(chars) ==
    LET j == DigitsEnd(chars, 1)
    IN /\ j > 1
       /\ j <= Len(chars)
       /\ chars[j] = "-"
       /\ DigitsEnd(chars, j + 1) > j + 1
       /\ DigitsEnd(chars, j + 1) = Len(chars) + 1

C13_AvailableSlotsIntegerList ==
    (Validated /\ workers.present) =>
        \A k \in 1..Len(workers.rows) :
            LET cell == workers.rows[k].AvailableSlots
                found == ErrorsOnField(validationErrors, "workers", k - 1, "AvailableSlots")
            IN /\ cell \in IntegerListCells => found = <<>>
               /\ cell \in NotIntegerListCells => TypesOf(found) = <<"MalformedList">>

\* C14: a client row gets exactly one BrokenJSON error on AttributesJSON when
\* AttributesJSON is non-empty and no JSON text, and none when it is JSON text,
\* empty or absent; in validateClients of Home and of utils/validation.ts
\* (invalid_json, 1-based row).
C14_BrokenJSONOnInvalidText ==
    (Validated /\ clients.present) =>
        \A k \in 1..Len(clients.rows) :
            LET cell == clients.rows[k].AttributesJSON
                found == ErrorsOnField(validationErrors, "clients", k - 1, "AttributesJSON")
                utilFound == SelectSeq(utilErrors,
                                       LAMBDA e : e.row = k /\ e.column = "AttributesJSON")
            IN /\ cell \in BrokenJsonCells =>
                    /\ TypesOf(found) = <<"BrokenJSON">>
                    /\ TypesOf(utilFound) = <<"invalid_json">>
               /\ cell \in (ValidJsonCells \cup {Undef, Str(<<>>)}) =>
                    /\ found = <<>>
                    /\ utilFound = <<>>

\* Row 0 has {"a":1} and no error, row 1 has {a:1} and one BrokenJSON.
C14_Witness ==
    /\ Validated
    /\ Len(clients.rows) = 2
    /\ clients.rows[1].AttributesJSON = Str(<<"{", "\"", "a", "\"", ":", "1", "}">>)
    /\ clients.rows[2].AttributesJSON = Str(<<"{", "a", ":", "1", "}">>)
    /\ ErrorsOnField(validationErrors, "clients", 0, "AttributesJSON") = <<>>
    /\ TypesOf(ErrorsOnField(validationErrors, "clients", 1, "AttributesJSON")) = <<"BrokenJSON">>
    /\ \E n \in 1..Len(utilErrors) : utilErrors[n].type = "invalid_json" /\ utilErrors[n].row = 2

PageErrorsOn(errs, row, column) ==
    SelectSeq(errs, LAMBDA e : e.row = row /\ e.column = column)

\* A present value that does not parse as a number.
NotANumber(cell) == cell.t = "s" /\ cell.s # <<>> /\ ToNumber(cell).nan

\* For a value that parses: no error on the field.  For a present value that
\* does not parse: exactly one error on the field.
NumericOnly(cell, found) ==
    /\ CarriesNumber(cell) => found = <<>>
    /\ NotANumber(cell) => Len(found) = 1

\* C15 in the validators of Home: MaxLoadPerPhase and MaxConcurrent get one
\* MalformedValue when the value does not parse as a number and no error when
\* it does, whatever the number.
C15_HomeNumericParseabilityOnly ==
    Validated =>
        /\ workers.present =>
              \A k \in 1..Len(workers.rows) :
                  LET found == ErrorsOnField(validationErrors, "workers", k - 1, "MaxLoadPerPhase")
                  IN /\ NumericOnly(workers.rows[k].MaxLoadPerPhase, found)
                     /\ \A n \in 1..Len(found) : found[n].type = "MalformedValue"
        /\ tasks.present =>
              \A k \in 1..Len(tasks.rows) :
                  LET found == ErrorsOnField(validationErrors, "tasks", k - 1, "MaxConcurrent")
                  IN /\ NumericOnly(tasks.rows[k].MaxConcurrent, found)
                     /\ \A n \in 1..Len(found) : found[n].type = "MalformedValue"

\* C15: MaxLoadPerPhase and MaxConcurrent are checked for numeric parseability
\* only, in the validators of Home and in validateWorkers of app/page.tsx: a
\* present value that does not parse yields exactly one error on the field and
\* a value that parses, also one below 1, yields none.
C15_NumericParseabilityOnly ==
    /\ C15_HomeNumericParseabilityOnly
    /\ (Validated /\ workers.present) =>
          \A k \in 1..Len(workers.rows) :
              NumericOnly(workers.rows[k].MaxLoadPerPhase,
                          PageErrorsOn(pageValidationErrors, k, "MaxLoadPerPhase"))

\* The row with every field but one removed.
Blanked(row, field) == [g \in DOMAIN row |-> IF g = field THEN row[g] ELSE Undef]

ReplaceRow(data, k, row) ==
    [present |-> data.present,
     rows |-> [j \in 1..Len(data.rows) |-> IF j = k THEN row ELSE data.rows[j]]]

\* The errors on one field of row k are those the validation gives when the
\* other fields of that row are removed.
FieldsIndependent(data, entity, Report(_)) ==
    data.present =>
        \A k \in 1..Len(data.rows) :
            \A field \in DOMAIN data.rows[k] :
                ErrorsOnField(validationErrors, entity, k - 1, field)
                    = ErrorsOnField(Report(ReplaceRow(data, k, Blanked(data.rows[k], field))),
                                    entity, k - 1, field)

\* Every error of a row lies on one of the fields of the row.
ErrorsOnFieldsOnly(data, entity) ==
    \A n \in 1..Len(validationErrors) :
        (validationErrors[n].entity = entity /\ validationErrors[n].rowIndex \in RowIndexes(data))
            => validationErrors[n].field \in DOMAIN data.rows[validationErrors[n].rowIndex + 1]

\* C16: the errors on a field of a row do not depend on the other fields of the
\* row, so a row that breaks k rules gets all k errors, also a row already
\* flagged as a duplicate.
C16_RulesIndependentAndExhaustive ==
    Validated =>
        /\ FieldsIndependent(clients, "clients", LAMBDA d : Validation(d, workers, tasks))
        /\ FieldsIndependent(workers, "workers", LAMBDA d : Validation(clients, d, tasks))
        /\ FieldsIndependent(tasks, "tasks", LAMBDA d : Validation(clients, workers, d))
        /\ ErrorsOnFieldsOnly(clients, "clients")
        /\ ErrorsOnFieldsOnly(workers, "workers")
        /\ ErrorsOnFieldsOnly(tasks, "tasks")

\* The second client row repeats ClientID C1, has PriorityLevel 6 and the
\* AttributesJSON {a:1}: it gets DuplicateID, OutOfRange and BrokenJSON.
C16_Witness ==
    /\ Validated
    /\ Len(clients.rows) = 2
    /\ clients.rows[1].ClientID = clients.rows[2].ClientID
    /\ clients.rows[2].PriorityLevel = Num(6)
    /\ clients.rows[2].AttributesJSON = Str(<<"{", "a", ":", "1", "}">>)
    /\ TypesOf(ErrorsOnField(validationErrors, "clients", 1, "ClientID")) = <<"DuplicateID">>
    /\ TypesOf(ErrorsOnField(validationErrors, "clients", 1, "PriorityLevel")) = <<"OutOfRange">>
    /\ TypesOf(ErrorsOnField(validationErrors, "clients", 1, "AttributesJSON")) = <<"BrokenJSON">>

OptionalFields(entity) ==
    CASE entity = "clients" -> {"PriorityLevel", "RequestedTaskIDs", "AttributesJSON"}
      [] entity = "workers" -> {"Skills", "AvailableSlots", "MaxLoadPerPhase"}
      [] OTHER -> {"RequiredSkills", "PreferredPhases", "DurationPhases", "MaxConcurrent"}

AllOptionalAbsent(row, entity) == \A f \in OptionalFields(entity) : EmptyOrMissing(row[f])

\* No error of Home's report lies on an optional field of a row whose optional
\* fields are all empty or missing.
AbsentFieldsClean(data, entity) ==
    data.present =>
        \A k \in 1..Len(data.rows) :
            AllOptionalAbsent(data.rows[k], entity) =>
                \A f \in OptionalFields(entity) :
                    ErrorsOnField(validationErrors, entity, k - 1, f) = <<>>

\* The same for a report of {type, message, row, column} errors.
AbsentColumnsClean(data, entity, errs) ==
    data.present =>
        \A k \in 1..Len(data.rows) :
            AllOptionalAbsent(data.rows[k], entity) =>
                \A f \in OptionalFields(entity) : PageErrorsOn(errs, k, f) = <<>>

\* C17 in the validators of Home.
C17_HomeAbsentOptionalFieldsYieldNoError ==
    Validated =>
        /\ AbsentFieldsClean(clients, "clients")
        /\ AbsentFieldsClean(workers, "workers")
        /\ AbsentFieldsClean(tasks, "tasks")

\* C17: a row whose optional fields are all empty string or missing yields no
\* error on any of them, in the validators of Home, in validateClients of
\* utils/validation.ts and in the validators of app/page.tsx.
C17_AbsentOptionalFieldsYieldNoError ==
    /\ C17_HomeAbsentOptionalFieldsYieldNoError
    /\ Validated =>
          /\ AbsentColumnsClean(clients, "clients", utilErrors)
          /\ AbsentColumnsClean(clients, "clients", pageValidationErrors)
          /\ AbsentColumnsClean(workers, "workers", pageValidationErrors)
          /\ AbsentColumnsClean(tasks, "tasks", pageValidationErrors)

C19_ReportOfCurrentDatasets ==
    validationErrors = Validation(clients, workers, tasks)

\* All three datasets were loaded, the last upload was rejected, and the
\* report holds errors of the clients and of the tasks now stored.
C19_Witness ==
    /\ AllLoaded
    /\ error.kind = "headers"
    /\ validationErrors = Validation(clients, workers, tasks)
    /\ \E n \in 1..Len(validationErrors) : validationErrors[n].entity = "clients"
    /\ \E n \in 1..Len(validationErrors) : validationErrors[n].entity = "tasks"

ColumnsOf(type) ==
    CASE type = "clients" -> {"ClientID", "PriorityLevel", "ClientID/ClientName"}
      [] type = "workers" -> {"WorkerID", "WorkerID/WorkerName", "MaxLoadPerPhase"}
      [] OTHER -> {"TaskID", "Duration", "TaskID/TaskName"}

PageDataOf(type) ==
    CASE type = "clients" -> clientsData
      [] type = "workers" -> workersData
      [] OTHER -> tasksData

\* C20: in AIResourceConfigurator the errors of a dataset kind that the report
\* holds are those of the rows now stored for that kind, that is, of its
\* latest upload, and none of an earlier upload.
C20_PageReportOfLatestUploadOnly ==
    \A type \in DatasetTypes :
        SelectSeq(pageValidationErrors, LAMBDA e : e.column \in ColumnsOf(type))
            = PageErrors(type, PageDataOf(type))

\* C21: validation never modifies or discards data.  A run of the validators
\* leaves the three datasets as they were: the same rows in the same order
\* with the same cells, the flagged rows included.
C21_ValidationLeavesDataUnchanged ==
    [][clients' = clients /\ workers' = workers /\ tasks' = tasks]_vars

\* A dataset of two rows has been validated, its second row is flagged as a
\* duplicate and is still there.
C21_Witness ==
    /\ Validated
    /\ clients.present /\ Len(clients.rows) = 2
    /\ \E k \in 1..Len(validationErrors) :
          /\ validationErrors[k].type = "DuplicateID"
          /\ validationErrors[k].entity = "clients"
          /\ validationErrors[k].rowIndex = 1

ErrorKinds == FieldLevelTypes \cup ReferentialTypes

DatasetOf(entity) ==
    CASE entity = "clients" -> clients [] entity = "workers" -> workers [] OTHER -> tasks

IdField(entity) ==
    CASE entity = "clients" -> "ClientID" [] entity = "workers" -> "WorkerID" [] OTHER -> "TaskID"

\* The shape of one record of Home's report.
WellFormedError(e) ==
    /\ e.type \in ErrorKinds
    /\ e.entity \in DatasetTypes
    /\ DatasetOf(e.entity).present
    /\ e.rowIndex \in RowIndexes(DatasetOf(e.entity))
    /\ e.field \in {IdField(e.entity)} \cup OptionalFields(e.entity)
    /\ e.type = "UnknownReference" => (e.entity = "clients" /\ e.field = "RequestedTaskIDs")
    /\ e.type = "SkillCoverage" => (e.entity = "tasks" /\ e.field = "RequiredSkills")

HomeErrorsWellFormed ==
    Validated => \A k \in 1..Len(validationErrors) : WellFormedError(validationErrors[k])

\* C22: every error record has a kind of the eight-kind taxonomy, the entity
\* of the dataset its row is in and the 0-based position of that row
\* (0 <= rowIndex < number of rows); UnknownReference comes only with entity
\* clients and field RequestedTaskIDs, SkillCoverage only with entity tasks and
\* field RequiredSkills.  The records of utils/validation.ts carry their row
\* number in the field row.
C22_ErrorRecordShape ==
    /\ HomeErrorsWellFormed
    /\ Validated => \A k \in 1..Len(utilErrors) : utilErrors[k].row \in RowIndexes(clients)

NoRows(data) == ~data.present \/ data.rows = <<>>

\* C23: validation has no fatal outcome.  The validators return a list of
\* errors for every dataset: no exception leaves them on broken JSON, on
\* AvailableSlots that are no list or on missing fields, and datasets
\* without rows give the empty list.
C23_NoFatalOutcome ==
    /\ pc # "threw"
    /\ (pc # "start" /\ NoRows(clients) /\ NoRows(workers) /\ NoRows(tasks))
          => validationErrors = <<>>

\* A worker row whose AvailableSlots make the try block throw has been
\* validated: the exception became a MalformedList error.
C23_Witness ==
    /\ Validated
    /\ workers.present
    /\ \E k \in 1..Len(workers.rows) :
          /\ Truthy(workers.rows[k].AvailableSlots)
          /\ SlotsThrow(workers.rows[k].AvailableSlots)
          /\ Len(ErrorsOnField(validationErrors, "workers", k - 1, "AvailableSlots")) = 1

Percent == 0..100

\* C24: prioritizationWeight starts at 50 and stays an integer in 0..100
\* under slider changes, and the prioritization object of every exported
\* rules file has clientPriority and taskEfficiency in 0..100 with sum 100.
C24_PrioritizationSumsTo100 ==
    /\ prioritizationWeight \in Percent
    /\ saved.prioritization # <<>> =>
          LET p == saved.prioritization[1]
          IN /\ p.clientPriority \in Percent
             /\ p.taskEfficiency \in Percent
             /\ p.clientPriority + p.taskEfficiency = 100

\* The slider has been moved to its upper end and the rules exported.
C24_Witness ==
    /\ prioritizationWeight = 100
    /\ saved.prioritization = <<[clientPriority |-> 0, taskEfficiency |-> 100]>>

\* C25: the report gates export.  An export (Export CSV, Export XLSX, Export
\* Rules) happens only in a state whose validation report is empty.
C25_NoExportWithErrors ==
    [][(ExportCSV \/ ExportXLSX \/ HandleExportRules) => validationErrors = <<>>]_vars

\* An upload that is to be rejected: the parse failed, the file has no rows,
\* or its first row lacks a required header.
RejectedUpload(type, file) ==
    \/ ~file.ok
    \/ file.rows = <<>>
    \/ \E n \in 1..Len(requiredHeaders(type)) : file.rows[1][requiredHeaders(type)[n]] = Undef

\* C26: a rejected upload changes nothing but the error banner, which it
\* sets; an accepted upload stores the rows of the file as the dataset of the
\* uploaded kind, leaves the two other datasets as they were and clears the
\* banner.
C26_UploadAllOrNothing ==
    [][\A type \in DatasetTypes : \A file \in ExportFiles(type) :
          HandleUpload(type, file) =>
              IF RejectedUpload(type, file)
              THEN /\ error' # NoError
                   /\ UNCHANGED <<clients, workers, tasks, validationErrors, activeTab>>
              ELSE /\ error' = NoError
                   /\ DatasetOf(type)' = Data(file.rows)
                   /\ \A other \in DatasetTypes \ {type} : DatasetOf(other)' = DatasetOf(other)
                   /\ UNCHANGED activeTab]_vars

\* A file without the required headers has been rejected while clients
\* uploaded before are still stored.
C26_Witness ==
    /\ error.kind = "headers"
    /\ clients.present /\ clients.rows # <<>>

UploadsOf(type) == {i \in 1..Len(uploads) : uploads[i].type = type}

LastStarted(type) == CHOOSE i \in UploadsOf(type) : \A j \in UploadsOf(type) : j <= i

\* C27: when the uploads of one kind have all finished, the dataset of that
\* kind is the one of the upload that was started last (if that upload was
\* accepted), whatever the order in which the parses settled, and the report
\* is the report of the stored datasets.
C27_LastStartedUploadWins ==
    \A type \in DatasetTypes :
        (/\ UploadsOf(type) # {}
         /\ \A i \in UploadsOf(type) : uploads[i].at = "done"
         /\ ~RejectedUpload(type, uploads[LastStarted(type)].file))
            => /\ DatasetOf(type) = Data(uploads[LastStarted(type)].file.rows)
               /\ validationErrors = Validation(clients, workers, tasks)

InFlight == {i \in 1..Len(searches) : searches[i].at = "awaiting"}

\* C28: isProcessing is true whenever at least one natural-language search is
\* in flight, and false once all of them have completed, also when calls
\* overlap.
C28_ProcessingWhileInFlight ==
    /\ InFlight # {} => isProcessing
    /\ (searches # <<>> /\ InFlight = {}) => ~isProcessing

\* The number of pages of n rows: the least q with q * size >= n.
PagesOf(n, size) == CHOOSE q \in 0..n : q * size >= n /\ \A r \in 0..(q - 1) : r * size < n

LastPage == IF PagesOf(Len(FilteredData), pageSize) > 1
            THEN PagesOf(Len(FilteredData), pageSize) ELSE 1

\* C29: currentPage stays within 1..max(1, totalPages), totalPages being the
\* filtered rows divided by the page size, rounded up; Next is disabled on the
\* last page, also when the filter matches no row.
C29_CurrentPageWithinPages ==
    /\ currentPage \in 1..LastPage
    /\ TotalPages = PagesOf(Len(FilteredData), pageSize)
    /\ currentPage = LastPage => NextDisabled

\* C30: uploadProgress is always a multiple of 10 in 0..100; every timer
\* started by a drop is cleared in the end, and only when the progress has
\* reached 100, also when a second file is dropped while an earlier timer
\* runs; a file above 10 MB sets the error, starts no timer and is never
\* handed to onUpload.
C30_ProgressTimersCleared ==
    /\ [](uploadProgress \in {10 * k : k \in 0..10})
    /\ [](\A n \in 1..Len(onUploadCalls) : onUploadCalls[n] <= 10485760)
    /\ [][\A t \in timers \ timers' : uploadProgress = 100]_vars
    /\ [][\A size \in {s \in FileSizes : s > 10485760} :
              DropTooLarge(size) => /\ uploadError'
                                    /\ timers' = timers
                                    /\ onUploadCalls' = onUploadCalls]_vars
    /\ [](Cardinality(timers) <= Len(onUploadCalls))
    /\ \A t \in 1..MaxDrops : (t \in timers) ~> (t \notin timers)

\* A second file has been dropped while the timer of the first was running,
\* and the progress has reached 100 with both timers still to be cleared.
C30_Witness == timers = {1, 2} /\ uploadProgress = 100

====
